---- MODULE Spec2Model ----
(***************************************************************************)
(* PropLink (libproplink-cpp): the server's variable/trigger store and     *)
(* request dispatch (src/src/server.cpp, thread pool) and the client's     *)
(* correlation maps, subscription dispatch and reconnect controller        *)
(* (src/src/client.cpp, second translation unit, lines 575-1133).          *)
(* The zero-copy codec of src/temp(zero-copy) is modelled on byte           *)
(* sequences (last section).                                               *)
(***************************************************************************)
EXTENDS Integers, Sequences, FiniteSets, TLC

\* ------------------------------------------------------------------ bounds
\* Server::SetVariable calls and client requests in one run
MaxOps == 1
\* requests the peers send in a run of the dispatch engine
MaxCommands == 2
\* requests one client issues in a run (Client::command_id_ stays below it)
MaxRequests == 2
\* VariableUpdate frames the subscriber socket receives in a run
MaxUpdates == 2
\* requests the two synchronous clients send in a run of reads and writes
MaxReadWrites == 3

\* ----------------------------------------------------- program constants
\* Client::__WorkerLoop: const int max_reconnect_attempts = 5
max_reconnect_attempts == 5

\* ------------------------------------------------------------ value domain
Names == {"a", "b"}
Triggers == {"capture"}
Clients == {"c1", "c2"}
\* (mutant of Workers: a pool of one thread)
Workers_One == {"w1"}

\* the pool threads (threadpool_size = 2)
Workers == {"w1", "w2"}
Kinds == {"double", "int", "bool", "string"}
Payloads == {0, 1}

\* proplink::Value: std::variant<bool, double, int, std::string>
Values == [kind : Kinds, v : Payloads]
\* VariableMessage::VALUE_NOT_SET
NotSet == [kind |-> "none", v |-> 0]
\* Value{} : the first alternative, bool false
EmptyValue == [kind |-> "bool", v |-> 0]

\* Server::PropertyWithCallback, plus whether the name is in the map
Absent == [present |-> FALSE, value |-> NotSet, read_only |-> FALSE, callback |-> FALSE]
PropertyWithCallback(value, ro, cb) ==
  [present |-> TRUE, value |-> value, read_only |-> ro, callback |-> cb]

\* VariableMessage of property.proto as the code uses it
VariableMessage(n, value, ro) == [name |-> n, value |-> value, read_only |-> ro]
NoVariableMessage == [name |-> "", value |-> NotSet, read_only |-> FALSE]

CommandTypes == {"GET_VARIABLE", "SET_VARIABLE", "GET_ALL_VARIABLES",
                 "GET_ALL_TRIGGERS", "EXECUTE_TRIGGER", "UNKNOWN"}

CommandMessage(id, type, vname, hasvar, var, hastrig, trig) ==
  [command_id |-> id, command_type |-> type, variable_name |-> vname,
   has_variable |-> hasvar, variable |-> var,
   has_trigger |-> hastrig, trigger |-> trig]

NoCommand == CommandMessage(-1, "UNKNOWN", "", FALSE, NoVariableMessage, FALSE, "")

\* the commands a peer may put on the command channel with id `id`
Commands(id) ==
     {CommandMessage(id, "GET_VARIABLE", n, FALSE, NoVariableMessage, FALSE, "") : n \in Names}
  \cup {CommandMessage(id, "SET_VARIABLE", "", TRUE, VariableMessage(n, v, FALSE), FALSE, "") :
          n \in Names, v \in Values \cup {NotSet}}
  \cup {CommandMessage(id, "SET_VARIABLE", "", FALSE, NoVariableMessage, FALSE, "")}
  \cup {CommandMessage(id, t, "", FALSE, NoVariableMessage, FALSE, "") :
          t \in {"GET_ALL_VARIABLES", "GET_ALL_TRIGGERS", "UNKNOWN"}}
  \cup {CommandMessage(id, "EXECUTE_TRIGGER", "", TRUE, NoVariableMessage, TRUE, t) :
          t \in Triggers \cup {"missing"}}
  \cup {CommandMessage(id, "EXECUTE_TRIGGER", "", FALSE, NoVariableMessage, FALSE, "")}

\* ResponseMessage of property.proto as the code uses it
ResponseMessage(id) ==
  [command_id |-> id, success |-> FALSE, error_message |-> "", message |-> "",
   has_variable |-> FALSE, variable |-> NoVariableMessage,
   variables |-> {}, triggers |-> {}]

NoResponse == ResponseMessage(-1)

Error(resp, text) == [resp EXCEPT !.success = FALSE, !.error_message = text]
Success(resp, text) == [resp EXCEPT !.success = TRUE, !.message = text]

\* ------------------------------------------------------------------- state
VARIABLES
  \* ---- server (src/src/server.cpp, server.h)
  variables_,      \* name -> PropertyWithCallback (or Absent)
  triggers_,       \* the registered trigger names
  running_,        \* Server::running_
  sockets,         \* "none" (never created), "open", "closed"
  router_in,       \* requests on the wire to the router socket: {identity, command}
  tasks_,          \* ThreadPool::tasks_, the queued closures (identity, command)
  worker,          \* position of each pool worker inside its task
  router_out,      \* replies sent on the router socket: {identity, response}
  internal_pub,    \* frames sent on internal_publisher_
  cb_log,          \* on-change callback invocations, in order: <<name, value>>
  trig_log,        \* trigger name -> number of invocations of its callback
  peer_id,         \* per peer, the command_id its next request will carry
  nops,            \* Server::SetVariable calls and requests so far
  reg_kind,        \* name -> the kind of the value given to RegisterVariable (observer)
  acked,           \* name -> the value of the last client write answered with success
                   \* and not followed by another write of the name (observer)
  router_frames,   \* the frames sent on the router sockets, in order: {router, kind, data}
  stop_,           \* ThreadPool::stop_
  pool_log,        \* what the pool did, in order: {op, task, w}
  mutations,       \* the VariableMessages of the value changes stored while running_,
                   \* in the order of the stores (observer)
  \* ---- client (src/src/client.cpp lines 575-1133, client.h)
  connected_,      \* Client::connected_
  client_running_, \* Client::running_
  command_id_,     \* Client::command_id_
  pending_responses_,   \* the ids that hold a promise
  async_responses_,     \* id -> whether the stored std::function is non-empty
  returned,        \* id -> what response_future.get() hands the sync caller
  async_log,       \* async callback invocations, in order: <<id, response>>
  dealer_out,      \* requests sent on dealer_, not yet answered
  dealer_in,       \* replies on the wire to dealer_
  io_pc,           \* the I/O thread: "off", "poll", "reconnect", "stopped", "terminated"
  need_reconnect,  \* __WorkerLoop local
  reconnect_attempts,   \* __WorkerLoop local
  slots_,          \* the names with an update callback
  slots_last_known_values_,  \* name -> Value
  sub_in,          \* VariableUpdate frames on the wire to subscriber_, in order
  sub_log,         \* update callback invocations, in order: <<name, value>>
  nupdates,        \* frames received so far
  \* ---- zero-copy codec (src/temp(zero-copy)/server.cpp, client.cpp)
  zc_pc,           \* "idle", "reply" (a reply is encoded), "request", "parsed"
  zc_msg,          \* what the sender encoded
  zc_wire,         \* the zmq::message_t: MessageHeader fields and payload bytes
  zc_parsed,       \* the Response __ParseResponse built / what the server read
  \* ---- the application thread inside Client::SetVariable / ExecuteTrigger
  caller,          \* where it stands and what the call gave back
  requests,        \* request thread -> where it stands in a public request call and
                   \* the command_id its command carries
  \* ---- the I/O thread's clock
  since_last_reconnect_time,  \* ms from last_reconnect_time to steady_clock::now()
  ev               \* the operation performed by the last step (observer)

srv_vars == <<variables_, triggers_, running_, sockets, router_in, tasks_, worker,
              router_out, internal_pub, cb_log, trig_log, peer_id, nops, reg_kind,
              acked, mutations, router_frames, stop_, pool_log>>

pool_vars == <<stop_, pool_log>>

cl_vars == <<connected_, client_running_, command_id_, pending_responses_,
             async_responses_, returned, async_log, dealer_out, dealer_in, io_pc,
             need_reconnect, reconnect_attempts, slots_, slots_last_known_values_,
             sub_in, sub_log, nupdates>>

codec_vars == <<zc_pc, zc_msg, zc_wire, zc_parsed>>

vars == <<srv_vars, cl_vars, codec_vars, caller, requests, since_last_reconnect_time, ev>>

\* the application threads that call the public request functions
RequestThreads == {"t1", "t2"}

\* a request thread: pc is "idle" (in no call), "built" (its command has its
\* command_id, lines 753-754 and 780-781) or "outstanding" (the command was
\* registered and sent); cmd_id and sync are those of its command
Request(pc, cmd_id, sync) == [pc |-> pc, cmd_id |-> cmd_id, sync |-> sync]
NoRequest == Request("idle", -1, FALSE)

\* the application thread: pc is "none" (in no call), "waiting" (inside
\* __SendCommandSync, at response_future.get()), "returned" (the call returned
\* `result`) or "threw" (an exception left the call); id, sync, callback: the
\* command_id, the connection_option and whether a callback was passed;
\* sent: whether the command went out on dealer_
Caller(pc, id, sync, callback, sent, result) ==
  [pc |-> pc, id |-> id, sync |-> sync, callback |-> callback, sent |-> sent,
   result |-> result]
NoCaller == Caller("none", -1, FALSE, FALSE, FALSE, FALSE)

\* ---- zero-copy codec: values, messages, the Response struct
\* Value = std::variant<bool, double, std::string> (temp(zero-copy)/client.h:105);
\* v is the bool or the double, s the bytes of the string
ZcValue(kind, v, s) == [kind |-> kind, v |-> v, s |-> s]
\* Value{} : bool false
ZcDefaultValue == ZcValue("bool", 0, <<>>)
ZcVariable(name, ro, value) == [name |-> name, read_only |-> ro, value |-> value]
\* what a sender encodes: kind is "GetVariable", "GetAllVariables", "Error"
\* (responses) or "SetVariable" (request)
ZcMessage(kind, msg_id, vs, text) ==
  [kind |-> kind, msg_id |-> msg_id, variables |-> vs, text |-> text]
ZcNoMessage == ZcMessage("none", 0, <<>>, <<>>)
\* struct MessageHeader {msg_type, msg_id, payload_size} followed by the payload
ZcWire(msg_type, msg_id, payload) ==
  [msg_type |-> msg_type, msg_id |-> msg_id, payload_size |-> Len(payload),
   payload |-> payload]
\* struct Response (temp(zero-copy)/client.cpp:10-16), `Response response = {false}`;
\* crashed: the process did not survive the call; name: prop_name, when the
\* server reads a SetVariable request
ZcResponse ==
  [success |-> FALSE, error_message |-> <<>>, variables |-> <<>>, triggers |-> <<>>,
   value |-> ZcDefaultValue, crashed |-> FALSE, name |-> <<>>]

\* a std::map / std::unordered_map with no entry
EmptyMap == [k \in {} |-> FALSE]

\* a request as __HandleRouterMessage reads it: the identity and delimiter
\* frames, the command parsed from the third frame, and the router socket
\* (internal_router_ or external_router_) it was read from
EnvelopeOn(router, identity, empty, cmd) ==
  [identity |-> identity, command |-> cmd, empty |-> empty, router |-> router]
Envelope(identity, cmd) == EnvelopeOn("internal_router_", identity, <<>>, cmd)
NoEnvelope == Envelope("", NoCommand)

\* a worker inside the closure of __HandleRouterMessage: pc is where it stands,
\* changed / value_cpy are the locals of __HandleSetVariable
\* (observer: pub0, how many frames had been published when the task began;
\* dirty, whether the name it writes was written by someone else since)
\* the server's mutexes
Mutexes == {"variables_mutex_", "triggers_mutex_", "router_mutex_"}

\* the std::lock_guard at the head of each handler __HandleCommand calls
\* (lines 298, 336, 436, 456, 483): the mutex it names, none when the handler
\* returns before it
LockOf(command) ==
  CASE command.command_type = "GET_VARIABLE" -> {"variables_mutex_"}
    [] command.command_type = "SET_VARIABLE" /\ command.has_variable -> {"variables_mutex_"}
    [] command.command_type = "GET_ALL_VARIABLES" -> {"variables_mutex_"}
    [] command.command_type = "GET_ALL_TRIGGERS" -> {"variables_mutex_"}
    [] command.command_type = "EXECUTE_TRIGGER" /\ command.has_trigger -> {"triggers_mutex_"}
    [] OTHER -> {}

\* (mutant of LeaveScope: the guard lives until the handler returns, callback included)
LeaveScope_AtReturn(locks, scope, next) ==
  IF next = "reply" THEN locks \ scope ELSE locks

\* the closing brace of the guard's scope (lines 412, 487; the handler's end
\* elsewhere), which comes before the callback is invoked (lines 417, 489)
LeaveScope(locks, scope, next) == locks \ scope

\* a mutex no other thread holds
Free(wk, w, scope) == \A o \in DOMAIN wk : o = w \/ wk[o].held \cap scope = {}

\* held: the mutexes the worker holds; locked (observer): those it took for the
\* handler it ran
IdleWorker == [pc |-> "idle", env |-> NoEnvelope, response |-> NoResponse,
               changed |-> FALSE, value_cpy |-> EmptyValue, pub0 |-> 0, dirty |-> FALSE,
               held |-> {}, locked |-> {}, sent |-> 0]

\* (observer) a write of name n: the workers inside a SET_VARIABLE of n, other
\* than the writer, are marked
MarkWriters(wk, n, writer) ==
  [w \in Workers |->
     IF /\ w # writer
        /\ wk[w].pc # "idle"
        /\ wk[w].env.command.command_type = "SET_VARIABLE"
        /\ wk[w].env.command.has_variable
        /\ wk[w].env.command.variable.name = n
       THEN [wk[w] EXCEPT !.dirty = TRUE]
       ELSE wk[w]]

\* the observer record: which operation the last step was and what it did
Event(op, w, n, arg, present, old, new, ro, same, pubs, cbs, req, resp) ==
  [op |-> op, w |-> w, name |-> n, arg |-> arg, present |-> present,
   old |-> old, new |-> new, ro |-> ro, same |-> same,
   pubs |-> pubs, cbs |-> cbs, req |-> req, resp |-> resp]
NoEvent(op) ==
  Event(op, "", "", NotSet, FALSE, NotSet, NotSet, FALSE, TRUE, 0, 0, NoCommand, NoResponse)

Init ==
  /\ variables_ = [n \in Names |-> Absent]
  /\ triggers_ = {}
  /\ running_ = FALSE
  /\ sockets = "none"
  /\ router_in = {}
  /\ tasks_ = <<>>
  /\ worker = [w \in Workers |-> IdleWorker]
  /\ router_out = {}
  /\ internal_pub = <<>>
  /\ cb_log = <<>>
  /\ trig_log = [t \in Triggers |-> 0]
  /\ zc_pc = "idle"
  /\ zc_msg = ZcNoMessage
  /\ zc_wire = ZcWire(0, 0, <<>>)
  /\ zc_parsed = ZcResponse
  /\ peer_id = [c \in Clients |-> 0]
  /\ nops = 0
  /\ reg_kind = [n \in Names |-> "none"]
  /\ acked = [n \in Names |-> NotSet]
  /\ mutations = <<>>
  /\ router_frames = <<>>
  /\ stop_ = FALSE
  /\ pool_log = <<>>
  /\ caller = NoCaller
  /\ requests = [t \in RequestThreads |-> NoRequest]
  /\ since_last_reconnect_time = 0
  /\ connected_ = FALSE
  /\ client_running_ = FALSE
  /\ command_id_ = 0
  /\ pending_responses_ = {}
  /\ async_responses_ = EmptyMap
  /\ returned = EmptyMap
  /\ async_log = <<>>
  /\ dealer_out = {}
  /\ dealer_in = {}
  /\ io_pc = "off"
  /\ need_reconnect = FALSE
  /\ reconnect_attempts = 0
  /\ slots_ = {}
  /\ slots_last_known_values_ = EmptyMap
  /\ sub_in = <<>>
  /\ sub_log = <<>>
  /\ nupdates = 0
  /\ ev = NoEvent("Init")

\* ------------------------------------------------- Server: the state store
\* variables_.find(name)
Find(vs, n) == IF n \in DOMAIN vs THEN vs[n] ELSE Absent

Registered(vs) == {n \in DOMAIN vs : vs[n].present}

\* Server::RegisterVariable: insert or replace value, read_only and callback
RegisterVariable(n, value, ro, cb) ==
  /\ variables_' = [variables_ EXCEPT ![n] = PropertyWithCallback(value, ro, cb)]
  /\ reg_kind' = [reg_kind EXCEPT ![n] = value.kind]
  /\ acked' = [acked EXCEPT ![n] = NotSet]
  /\ worker' = MarkWriters(worker, n, "")
  /\ ev' = [NoEvent("RegisterVariable") EXCEPT !.name = n, !.arg = value]
  /\ UNCHANGED <<cl_vars, codec_vars, caller, requests, since_last_reconnect_time, router_frames, pool_vars, mutations, triggers_, running_, sockets, router_in,
                 tasks_, router_out,
                 internal_pub, cb_log, trig_log, peer_id, nops>>

\* Server::RegisterTrigger
RegisterTrigger(t) ==
  /\ t \notin triggers_
  /\ triggers_' = triggers_ \cup {t}
  /\ ev' = [NoEvent("RegisterTrigger") EXCEPT !.name = t]
  /\ UNCHANGED <<cl_vars, codec_vars, caller, requests, since_last_reconnect_time, router_frames, pool_vars, acked, mutations, variables_, reg_kind, running_,
                 sockets, router_in, tasks_, worker,
                 router_out, internal_pub, cb_log, trig_log, peer_id, nops>>

\* (mutant of AlreadyRunning: Start does not look at running_)
AlreadyRunning_Never(r) == FALSE

\* Server::Start line 38, Server::Stop line 74: `if (running_)`
AlreadyRunning(r) == r

\* Server::Start: already running -> true; else create and bind the sockets,
\* set running_ and start the I/O thread; a bind error closes what was opened
\* (observer: ev.present = it was running, ev.same = the value returned)
Start(bind_ok) ==
  /\ IF AlreadyRunning(running_)
       THEN UNCHANGED <<running_, sockets>>
       ELSE IF bind_ok
              THEN running_' = TRUE /\ sockets' = "open"
              ELSE running_' = FALSE /\ sockets' = "closed"
  /\ ev' = [NoEvent("Start") EXCEPT !.present = running_,
                                    !.same = (AlreadyRunning(running_) \/ bind_ok)]
  /\ UNCHANGED <<cl_vars, codec_vars, caller, requests, since_last_reconnect_time, router_frames, pool_vars, acked, mutations, variables_, reg_kind, triggers_,
                 router_in, tasks_, worker, router_out,
                 internal_pub, cb_log, trig_log, peer_id, nops>>

\* Server::Stop: clear running_, wake and join the I/O thread, close the sockets
\* (what was still unread on the router socket is gone with it)
StopBody ==
  /\ IF AlreadyRunning(running_)
       THEN running_' = FALSE /\ sockets' = "closed" /\ router_in' = {}
       ELSE UNCHANGED <<running_, sockets, router_in>>
  /\ UNCHANGED <<cl_vars, codec_vars, caller, requests, since_last_reconnect_time, router_frames, pool_vars, acked, mutations, variables_, reg_kind, triggers_,
                 tasks_, worker, router_out,
                 internal_pub, cb_log, trig_log, peer_id, nops>>

Stop ==
  /\ StopBody
  /\ ev' = [NoEvent("Stop") EXCEPT !.present = running_]

\* Server::~Server: Stop()
Destroy ==
  /\ StopBody
  /\ ev' = [NoEvent("Destroy") EXCEPT !.present = running_]

\* (mutant of SameValue: the equality test is left out)
SameValue_Never(stored, value) == FALSE

\* Server::SetVariable, line 133: `if (it->second.value == value) return;`
\* (std::variant equality: same alternative and same payload)
SameValue(stored, value) == stored = value

\* Server::SetVariable: unknown name -> log; equal value -> return; else store
\* and, if running_, publish VariableMessage(name, value, read_only)
ServerSetVariableUpTo(n, value, max) ==
  LET it == Find(variables_, n)
      store == it.present /\ ~SameValue(it.value, value)
      vs1 == IF store THEN [variables_ EXCEPT ![n].value = value] ELSE variables_
      pub1 == IF store /\ running_
                THEN Append(internal_pub, VariableMessage(n, value, it.read_only))
                ELSE internal_pub
  IN /\ nops < max
     /\ nops' = nops + 1
     /\ variables_' = vs1
     /\ internal_pub' = pub1
     /\ acked' = IF store THEN [acked EXCEPT ![n] = NotSet] ELSE acked
     /\ mutations' = IF store /\ running_
                       THEN Append(mutations, VariableMessage(n, value, it.read_only))
                       ELSE mutations
     /\ worker' = IF store THEN MarkWriters(worker, n, "") ELSE worker
     /\ UNCHANGED <<cl_vars, codec_vars, caller, requests, since_last_reconnect_time, router_frames, pool_vars, reg_kind, triggers_, running_, sockets, router_in,
                    tasks_,
                    router_out, cb_log, trig_log, peer_id>>
     /\ ev' = Event("ServerSet", "", n, value, it.present, it.value, Find(vs1, n).value,
                    it.read_only, vs1 = variables_,
                    Len(internal_pub') - Len(internal_pub), Len(cb_log') - Len(cb_log),
                    NoCommand, NoResponse)

ServerSetVariable(n, value) == ServerSetVariableUpTo(n, value, MaxOps)

\* ------------------------------------------- Server: the command handlers
\* what a handler hands back: the catalog, the response, where the worker goes
\* next ("reply", "callback", "trigger_cb") and the locals it keeps
Handled(vs, response, next, changed, value_cpy) ==
  [vars |-> vs, response |-> response, next |-> next, changed |-> changed,
   value_cpy |-> value_cpy]

\* Server::__HandleGetVariable
HandleGetVariable(vs, command, response) ==
  LET it == Find(vs, command.variable_name)
  IN IF it.present
       THEN [response EXCEPT !.success = TRUE, !.has_variable = TRUE,
               !.variable = VariableMessage(command.variable_name, it.value, it.read_only)]
       ELSE Error(response, "Variable not found")

\* (mutant of IsReadOnly: the read-only test is left out)
IsReadOnly_Skipped(it) == FALSE

\* __HandleSetVariable line 345: `if (it->second.read_only)`
IsReadOnly(it) == it.read_only

\* (mutant of KindMatches: any incoming kind is taken)
KindMatches_Any(stored, incoming) == TRUE

\* __HandleSetVariable lines 355-410: holds_alternative<K>(value) and
\* prop.value_case() == k<K>Value
KindMatches(stored, incoming) ==
  CASE stored.kind = "double" -> incoming.kind = "double"
    [] stored.kind = "int" -> incoming.kind = "int"
    [] stored.kind = "bool" -> incoming.kind = "bool"
    [] stored.kind = "string" -> incoming.kind = "string"
    [] OTHER -> TRUE

TypeMismatchText(stored) ==
  CASE stored.kind = "double" -> "Type mismatch: is double, but received non-double value"
    [] stored.kind = "int" -> "Type mismatch: is int, but received non-int value"
    [] stored.kind = "bool" -> "Type mismatch: is boolean, but received non-boolean value"
    [] OTHER -> "Type mismatch: is string, but received non-string value"

\* (mutant of Differs: the comparison never sees a difference)
Differs_Never(stored, incoming) == FALSE

\* __HandleSetVariable lines 358, 372, 386, 400: `std::get<K>(value) != new_value`
Differs(stored, incoming) == stored.v # incoming.v

\* Server::__HandleSetVariable up to the end of the variables_mutex_ section
HandleSetVariable(vs, command, response) ==
  IF ~command.has_variable
    THEN Handled(vs, Error(response, "Variable not specified"), "reply", FALSE, EmptyValue)
    ELSE
      LET prop == command.variable
          it == Find(vs, prop.name)
      IN IF ~it.present
           THEN Handled(vs, Error(response, "Variable not found"), "reply", FALSE, EmptyValue)
         ELSE IF IsReadOnly(it)
           THEN Handled(vs, Error(response, "Variable is READ ONLY"), "reply", FALSE, EmptyValue)
         ELSE IF ~KindMatches(it.value, prop.value)
           THEN Handled(vs, Error(response, TypeMismatchText(it.value)), "reply", FALSE,
                        IF it.callback THEN it.value ELSE EmptyValue)
         ELSE
           LET changed == Differs(it.value, prop.value)
               vs1 == IF changed THEN [vs EXCEPT ![prop.name].value = prop.value] ELSE vs
           IN IF changed /\ it.callback
                THEN Handled(vs1, response, "callback", changed, vs1[prop.name].value)
                ELSE Handled(vs1, Success(response, "Variable updated"), "reply", changed,
                             vs1[prop.name].value)

\* Server::__HandleGetAllVariables
HandleGetAllVariables(vs, command, response) ==
  [response EXCEPT !.success = TRUE,
     !.variables = {VariableMessage(n, vs[n].value, vs[n].read_only) : n \in Registered(vs)}]

\* Server::__HandleGetAllTriggers
HandleGetAllTriggers(ts, command, response) ==
  [response EXCEPT !.success = TRUE, !.triggers = ts]

\* Server::__ExecuteTrigger lines 485-486: `triggers_.find(trigger_name)`
FindTrigger(ts, trigger_name) == trigger_name \in ts

\* Server::__HandleExecuteTrigger / __ExecuteTrigger up to the callback
HandleExecuteTrigger(vs, ts, command, response) ==
  IF ~command.has_trigger
    THEN Handled(vs, Error(response, "Trigger name not specified"), "reply", FALSE, EmptyValue)
  ELSE IF ~FindTrigger(ts, command.trigger)
    THEN Handled(vs, Error(response, "Failed to execute trigger: " \o command.trigger),
                 "reply", FALSE, EmptyValue)
  ELSE Handled(vs, response, "trigger_cb", FALSE, EmptyValue)

\* (mutant of EchoId: the id is left at the default of a new ResponseMessage)
EchoId_Zero(command) == 0

\* __HandleCommand line 268: response.set_command_id(command.command_id())
EchoId(command) == command.command_id

\* Server::__HandleCommand: the switch on command_type
HandleCommand(vs, ts, command) ==
  LET response == ResponseMessage(EchoId(command))
  IN CASE command.command_type = "GET_VARIABLE" ->
            Handled(vs, HandleGetVariable(vs, command, response), "reply", FALSE, EmptyValue)
       [] command.command_type = "SET_VARIABLE" ->
            HandleSetVariable(vs, command, response)
       [] command.command_type = "GET_ALL_VARIABLES" ->
            Handled(vs, HandleGetAllVariables(vs, command, response), "reply", FALSE, EmptyValue)
       [] command.command_type = "GET_ALL_TRIGGERS" ->
            Handled(vs, HandleGetAllTriggers(ts, command, response), "reply", FALSE, EmptyValue)
       [] command.command_type = "EXECUTE_TRIGGER" ->
            HandleExecuteTrigger(vs, ts, command, response)
       [] OTHER ->
            Handled(vs, Error(response, "Unknown command type"), "reply", FALSE, EmptyValue)

\* ------------------------------------------------ Server: dispatch engine
\* a peer puts a request on the command channel (Client::__GetNextCommandId
\* numbers a client's requests 0, 1, 2, ...)
PeerSend(c, cmd, max) ==
  /\ nops < max
  /\ nops' = nops + 1
  /\ cmd.command_id = peer_id[c]
  /\ peer_id' = [peer_id EXCEPT ![c] = @ + 1]
  /\ router_in' = router_in \cup {Envelope(c, cmd)}
  /\ ev' = [NoEvent("PeerSend") EXCEPT !.req = cmd]
  /\ UNCHANGED <<cl_vars, codec_vars, caller, requests, since_last_reconnect_time, router_frames, pool_vars, acked, mutations, variables_, reg_kind, triggers_,
                 running_, sockets, tasks_, worker,
                 router_out, internal_pub, cb_log, trig_log>>

\* Server::__HandleRouterMessage on the I/O thread: read identity, delimiter and
\* request, parse, and enqueue the closure on the pool
HandleRouterMessage(env) ==
  /\ running_
  /\ env \in router_in
  /\ router_in' = router_in \ {env}
  /\ tasks_' = Append(tasks_, env)
  /\ ev' = [NoEvent("HandleRouterMessage") EXCEPT !.req = env.command]
  /\ UNCHANGED <<cl_vars, codec_vars, caller, requests, since_last_reconnect_time, router_frames, pool_vars, acked, mutations, variables_, reg_kind, triggers_,
                 running_, sockets, worker,
                 router_out, internal_pub, cb_log, trig_log, peer_id, nops>>

\* a pool worker (ThreadPool::ThreadPool lambda) takes the front task and runs
\* __HandleCommand up to the point where it leaves the locked section
WorkerRun(w) ==
  /\ worker[w].pc = "idle"
  /\ tasks_ # <<>>
  /\ Free(worker, w, LockOf(Head(tasks_).command))
  /\ LET env == Head(tasks_)
         command == env.command
         r == HandleCommand(variables_, triggers_, command)
         isset == command.command_type = "SET_VARIABLE" /\ command.has_variable
         n == command.variable.name
         it == Find(variables_, n)
     IN /\ tasks_' = Tail(tasks_)
        /\ variables_' = r.vars
        /\ worker' = [(IF isset /\ r.changed THEN MarkWriters(worker, n, w) ELSE worker)
                         EXCEPT ![w] =
               [pc |-> r.next, env |-> env, response |-> r.response,
                changed |-> r.changed, value_cpy |-> r.value_cpy,
                pub0 |-> Len(internal_pub), dirty |-> FALSE,
                held |-> LeaveScope(LockOf(command), LockOf(command), r.next),
                locked |-> LockOf(command), sent |-> 0]]
        /\ acked' = IF isset /\ r.changed THEN [acked EXCEPT ![n] = NotSet] ELSE acked
        /\ mutations' = IF isset /\ r.changed /\ running_
                          THEN Append(mutations, VariableMessage(n, Find(r.vars, n).value,
                                                                 it.read_only))
                          ELSE mutations
        /\ UNCHANGED <<cl_vars, codec_vars, caller, requests, since_last_reconnect_time, router_frames, pool_vars, reg_kind, triggers_, running_, sockets,
                       router_in, router_out,
                       internal_pub, cb_log, trig_log, peer_id, nops>>
        /\ ev' = IF isset
                   THEN Event("HandleSet", w, n, command.variable.value, it.present,
                              it.value, Find(r.vars, n).value, it.read_only,
                              r.vars = variables_, Len(internal_pub') - Len(internal_pub),
                              Len(cb_log') - Len(cb_log), command, r.response)
                   ELSE [NoEvent("Handle") EXCEPT !.w = w, !.req = command,
                            !.resp = r.response, !.same = (r.vars = variables_)]

\* (mutant of InvokeCallback: the call is left out)
InvokeCallback_Skipped(log, n, value) == log

\* __HandleSetVariable line 417: `callback(value_cpy);`
InvokeCallback(log, n, value) == Append(log, [name |-> n, value |-> value])

\* (mutant of CallbackFailure: the exception is swallowed)
CallbackFailure_Swallowed(response) == Success(response, "Variable updated")

\* __HandleSetVariable lines 418-429: the two catch blocks
CallbackFailure(response) == Error(response, "Exception occured in server-side callback")

\* __HandleSetVariable lines 415-432: the on-change callback, outside the lock,
\* with the copy of the new value; an exception becomes an error response
WorkerCallback(w, throws) ==
  /\ worker[w].pc = "callback"
  /\ LET command == worker[w].env.command
         response == IF throws
                       THEN CallbackFailure(worker[w].response)
                       ELSE Success(worker[w].response, "Variable updated")
     IN /\ cb_log' = InvokeCallback(cb_log, command.variable.name, worker[w].value_cpy)
        /\ worker' = [worker EXCEPT ![w].pc = "reply", ![w].response = response]
        /\ ev' = [NoEvent("Callback") EXCEPT !.w = w, !.name = command.variable.name,
                     !.arg = worker[w].value_cpy, !.cbs = Len(cb_log') - Len(cb_log),
                     !.req = command,
                     !.resp = response, !.same = ~throws]
  /\ UNCHANGED <<cl_vars, codec_vars, caller, requests, since_last_reconnect_time, router_frames, pool_vars, acked, mutations, variables_, reg_kind, triggers_,
                 running_, sockets, router_in, tasks_,
                 router_out, internal_pub, trig_log, peer_id, nops>>

\* __ExecuteTrigger line 489 and __HandleExecuteTrigger lines 472-477: the trigger
\* callback, outside the lock; an exception leaves the task (std::packaged_task
\* keeps it) before any reply is sent
WorkerTriggerCallback(w, throws) ==
  /\ worker[w].pc = "trigger_cb"
  /\ trig_log' = [trig_log EXCEPT ![worker[w].env.command.trigger] = @ + 1]
  /\ LET command == worker[w].env.command
         response == Success(worker[w].response, "Trigger executed: " \o command.trigger)
     IN IF throws
          THEN /\ worker' = [worker EXCEPT ![w] = IdleWorker]
               /\ ev' = [NoEvent("TriggerThrew") EXCEPT !.w = w, !.req = command]
          ELSE /\ worker' = [worker EXCEPT ![w].pc = "reply", ![w].response = response]
               /\ ev' = [NoEvent("TriggerCallback") EXCEPT !.w = w, !.req = command,
                            !.resp = response]
  /\ UNCHANGED <<cl_vars, codec_vars, caller, requests, since_last_reconnect_time, router_frames, pool_vars, acked, mutations, variables_, reg_kind, triggers_,
                 running_, sockets, router_in, tasks_,
                 router_out, internal_pub, cb_log, peer_id, nops>>

\* the closure of __HandleRouterMessage, lines 250-262: send identity, delimiter
\* and reply under router_mutex_; on a closed socket send throws and nothing is sent
WorkerReply(w) ==
  /\ worker[w].pc = "reply"
  /\ Free(worker, w, {"router_mutex_"})
  /\ LET env == worker[w].env
         response == worker[w].response
     IN IF sockets = "open"
          THEN /\ router_out' = router_out \cup
                                  {[identity |-> env.identity, response |-> response]}
               /\ ev' = [NoEvent("Reply") EXCEPT !.w = w, !.name = env.identity,
                            !.req = env.command, !.resp = response,
                            !.same = ~worker[w].changed,
                            !.pubs = Len(internal_pub) - worker[w].pub0]
          ELSE /\ router_out' = router_out
               /\ ev' = [NoEvent("ReplyFailed") EXCEPT !.w = w, !.req = env.command]
  /\ worker' = [worker EXCEPT ![w] = IdleWorker]
  /\ acked' = LET command == worker[w].env.command
              IN IF /\ sockets = "open"
                    /\ command.command_type = "SET_VARIABLE" /\ command.has_variable
                    /\ worker[w].response.success
                    /\ ~worker[w].dirty
                   THEN [acked EXCEPT ![command.variable.name] = command.variable.value]
                   ELSE acked
  /\ UNCHANGED <<cl_vars, codec_vars, caller, requests, since_last_reconnect_time, router_frames, pool_vars, mutations, variables_, reg_kind, triggers_, running_,
                 sockets, router_in, tasks_,
                 internal_pub, cb_log, trig_log, peer_id, nops>>

\* ------------------------------------------------ the server specification
\* The runs explored follow the documented lifecycle: the variables are
\* registered first (server.h, RegisterVariable), then the server is used.
SetupVariable(n, value, ro, cb) ==
  /\ nops = 0
  /\ ~variables_[n].present
  /\ RegisterVariable(n, value, ro, cb)

\* values given to RegisterVariable in the runs explored
RegValues == {v \in Values : v.v = 0}

\* SET_VARIABLE requests on the registered name "a" and on the unknown name "b"
SetCommands(id) ==
     {CommandMessage(id, "SET_VARIABLE", "", TRUE, VariableMessage("a", v, FALSE), FALSE, "") :
          v \in Values \cup {NotSet}}
  \cup {CommandMessage(id, "SET_VARIABLE", "", TRUE,
                       VariableMessage("b", EmptyValue, FALSE), FALSE, "")}

\* SpecServer: one variable "a" with any registration, written by one client
\* and by the server itself
NextServer ==
  \/ \E v \in RegValues, ro \in BOOLEAN, cb \in BOOLEAN : SetupVariable("a", v, ro, cb)
  \/ \E ok \in BOOLEAN : Start(ok)
  \/ Stop
  \/ \E v \in Values : ServerSetVariable("a", v)
  \/ ServerSetVariable("b", EmptyValue)
  \/ \E cmd \in SetCommands(peer_id["c1"]) : PeerSend("c1", cmd, MaxOps)
  \/ \E env \in router_in : HandleRouterMessage(env)
  \/ \E w \in Workers : WorkerRun(w)
  \/ \E w \in Workers, throws \in BOOLEAN : WorkerCallback(w, throws)
  \/ \E w \in Workers : WorkerReply(w)

SpecServer == Init /\ [][NextServer]_vars

\* ----------------------------------------------------- claims on SpecServer
IsSet(cmd) == cmd.command_type = "SET_VARIABLE" /\ cmd.has_variable

\* C1 (read-only enforcement): a client SET_VARIABLE on a variable whose
\* read_only flag is set leaves the catalog as it was and is answered with the
\* READ ONLY error; Server::SetVariable with a differing value on such a
\* variable stores the new value.
C1_ReadOnlyEnforcement ==
  /\ (ev.op = "HandleSet" /\ ev.present /\ ev.ro) =>
        /\ ev.same /\ variables_[ev.name].value = ev.old
        /\ worker[ev.w].pc = "reply"
        /\ ~worker[ev.w].response.success
        /\ worker[ev.w].response.error_message = "Variable is READ ONLY"
  /\ (ev.op = "Reply" /\ IsSet(ev.req) /\ Find(variables_, ev.req.variable.name).read_only) =>
        /\ ~ev.resp.success
        /\ ev.resp.error_message = "Variable is READ ONLY"
  /\ (ev.op = "ServerSet" /\ ev.present /\ ev.ro /\ ev.arg # ev.old) =>
        /\ variables_[ev.name].value = ev.arg
        /\ variables_[ev.name].value # ev.old

\* C1 witness: the reply to a client write on a read-only variable was sent
C1_Witness ==
  /\ ev.op = "Reply" /\ IsSet(ev.req)
  /\ Find(variables_, ev.req.variable.name).read_only
  /\ ev.req.variable.value.kind = variables_[ev.req.variable.name].value.kind
  /\ ev.req.variable.value # variables_[ev.req.variable.name].value

\* C4 (change implies notification), as claimed: while the server is running, a
\* Server::SetVariable that changes the value publishes exactly one
\* VariableUpdate (name, new value, read_only), and by the time the reply to a
\* value-changing client SET_VARIABLE is sent a VariableUpdate has been published.
C4_ChangeImpliesNotification ==
  /\ (ev.op = "ServerSet" /\ running_ /\ ev.new # ev.old) =>
        /\ ev.pubs = 1
        /\ internal_pub[Len(internal_pub)] = VariableMessage(ev.name, ev.new, ev.ro)
  /\ (ev.op = "Reply" /\ running_ /\ IsSet(ev.req) /\ ~ev.same) => ev.pubs >= 1

C7_TypeMismatch ==
  (ev.op = "HandleSet" /\ ev.present /\ ~ev.ro /\ ev.arg.kind # ev.old.kind) =>
     /\ ev.same /\ variables_[ev.name].value = ev.old
     /\ ev.cbs = 0
     /\ worker[ev.w].pc = "reply"
     /\ ~worker[ev.w].response.success
     /\ worker[ev.w].response.error_message =
          (CASE ev.old.kind = "double" ->
                  "Type mismatch: is double, but received non-double value"
             [] ev.old.kind = "int" -> "Type mismatch: is int, but received non-int value"
             [] ev.old.kind = "bool" ->
                  "Type mismatch: is boolean, but received non-boolean value"
             [] ev.old.kind = "string" ->
                  "Type mismatch: is string, but received non-string value")

\* C7 witness: an int variable with a callback was sent a string
C7_Witness ==
  /\ ev.op = "HandleSet" /\ ev.present /\ ~ev.ro
  /\ ev.old.kind = "int" /\ ev.arg.kind = "string"
  /\ variables_[ev.name].callback

\* C8 (kind stability), as claimed: the stored value of every registered
\* variable has the kind it was registered with.
C8_KindStability ==
  \A n \in Names : variables_[n].present => variables_[n].value.kind = reg_kind[n]

\* ------------------------------------------------ the dispatch specification
\* one request of every command type and of every error path of the handlers
DispatchCommands(id) ==
     {CommandMessage(id, "GET_VARIABLE", n, FALSE, NoVariableMessage, FALSE, "") : n \in Names}
  \cup {CommandMessage(id, "SET_VARIABLE", "", TRUE, VariableMessage("a", v, FALSE), FALSE, "") :
          v \in {[kind |-> "int", v |-> 1], [kind |-> "string", v |-> 0]}}
  \cup {CommandMessage(id, "SET_VARIABLE", "", TRUE,
                       VariableMessage("b", EmptyValue, FALSE), FALSE, "")}
  \cup {CommandMessage(id, "SET_VARIABLE", "", FALSE, NoVariableMessage, FALSE, "")}
  \cup {CommandMessage(id, t, "", FALSE, NoVariableMessage, FALSE, "") :
          t \in {"GET_ALL_VARIABLES", "GET_ALL_TRIGGERS", "UNKNOWN"}}
  \cup {CommandMessage(id, "EXECUTE_TRIGGER", "", FALSE, NoVariableMessage, TRUE, t) :
          t \in Triggers \cup {"missing"}}
  \cup {CommandMessage(id, "EXECUTE_TRIGGER", "", FALSE, NoVariableMessage, FALSE, "")}

SetupTrigger(t) ==
  /\ nops = 0
  /\ RegisterTrigger(t)

\* SpecDispatch: an int variable "a" and a trigger, two peers sending requests of
\* every type to a started server
Outstanding(c) ==
  \/ \E env \in router_in : env.identity = c
  \/ \E i \in 1..Len(tasks_) : tasks_[i].identity = c
  \/ \E w \in Workers : worker[w].pc # "idle" /\ worker[w].env.identity = c

NextDispatch ==
  \/ SetupVariable("a", [kind |-> "int", v |-> 0], FALSE, TRUE)
  \/ variables_["a"].present /\ SetupVariable("b", EmptyValue, TRUE, FALSE)
  \/ variables_["b"].present /\ (\E t \in Triggers : SetupTrigger(t))
  \/ triggers_ # {} /\ Start(TRUE)
  \/ \E c \in Clients : \E cmd \in DispatchCommands(peer_id[c]) :
        ~Outstanding(c) /\ PeerSend(c, cmd, MaxCommands)
  \/ \E env \in router_in : HandleRouterMessage(env)
  \/ \E w \in Workers : WorkerRun(w)
  \/ \E w \in Workers, throws \in BOOLEAN : WorkerCallback(w, throws)
  \/ \E w \in Workers, throws \in BOOLEAN : WorkerTriggerCallback(w, throws)
  \/ \E w \in Workers : WorkerReply(w)

SpecDispatch == Init /\ [][NextDispatch]_vars

\* ---------------------------------------------------- claims on SpecDispatch
\* C2 (id echo): the response a worker holds for a request, and every reply
\* sent on the router socket (success, not-found, read-only, type mismatch,
\* 'Unknown command type', ...), carries the command_id of the request it
\* answers; a reply goes to the identity the request came from.
C2_IdEcho ==
  /\ \A w \in Workers : worker[w].pc # "idle" =>
        worker[w].response.command_id = worker[w].env.command.command_id
  /\ ev.op \in {"Handle", "HandleSet", "Callback", "TriggerCallback", "Reply"} =>
        ev.resp.command_id = ev.req.command_id
  /\ ev.op = "Reply" => [identity |-> ev.name, response |-> ev.resp] \in router_out
  /\ \A m \in router_out :
        m.response.command_id >= 0 /\ m.response.command_id < peer_id[m.identity]

\* C2 witness: the second request of a peer, of an unknown type, was answered
\* with the 'Unknown command type' error
C2_Witness ==
  /\ ev.op = "Reply"
  /\ ev.req.command_id = 1
  /\ ev.req.command_type = "UNKNOWN"
  /\ ~ev.resp.success /\ ev.resp.error_message = "Unknown command type"

\* ------------------------------------------------------------ Client: maps
\* std::map insert-or-assign and erase
Put(f, k, v) == [x \in DOMAIN f \cup {k} |-> IF x = k THEN v ELSE f[x]]
\* (mutant of Drop: the entry is left in the map)
Drop_Keep(f, k) == f

\* std::map::erase (lines 1032, 1043)
Drop(f, k) == [x \in DOMAIN f \ {k} |-> f[x]]

\* the keys of a std::map<uint64_t, ...> in iteration order
RECURSIVE InOrder(_)
InOrder(S) ==
  IF S = {} THEN <<>>
  ELSE LET m == CHOOSE x \in S : \A y \in S : x <= y
       IN <<m>> \o InOrder(S \ {m})

\* (mutant of FindEntry: the oldest entry is taken, whatever the reply's id)
FindEntry_Oldest(keys, cmd_id) ==
  IF keys = {} THEN {} ELSE {CHOOSE x \in keys : \A y \in keys : x <= y}

\* __WorkerLoop lines 1029-1030, 1040-1041: map.find(cmd_id), as the set of
\* keys found
FindEntry(keys, cmd_id) == IF cmd_id \in keys THEN {cmd_id} ELSE {}

\* the error responses the client builds itself
ErrorResponse(cmd_id, text) == Error(ResponseMessage(cmd_id), text)

\* (mutant of ResetResponse: set_command_id is left out)
ResetResponse_NoId(cmd_id) == ErrorResponse(0, "Connection reset during operation")

\* __WorkerLoop lines 963-966, 974-977
ResetResponse(cmd_id) == ErrorResponse(cmd_id, "Connection reset during operation")

\* __WorkerLoop lines 997-1000
GiveUpResponse(cmd_id) == ErrorResponse(cmd_id, "Failed to reconnect after maximum attempts")

\* Client::__ExtractValue: the value of the oneof, Value{} when none is set
ExtractValue(variable) ==
  IF variable.value.kind \in Kinds THEN variable.value ELSE EmptyValue

\* the requests the public calls build: GetVariable (sync) and SetVariable (async)
SyncCommand(id) == CommandMessage(id, "GET_VARIABLE", "a", FALSE, NoVariableMessage, FALSE, "")
AsyncCommand(id) ==
  CommandMessage(id, "SET_VARIABLE", "", TRUE,
                 VariableMessage("a", [kind |-> "int", v |-> 1], FALSE), FALSE, "")

sub_vars == <<slots_, slots_last_known_values_, sub_in, sub_log, nupdates>>

\* where the loop stands after an iteration: at the reconnect block when
\* need_reconnect is set, else blocked in zmq::poll
LoopTop(need) == IF need THEN "reconnect" ELSE "poll"

\* ------------------------------------------------- Client: the public calls
\* Client::Connect: already connected -> true; else create and connect the
\* sockets, set connected_ and running_ and start the I/O thread; a zmq error
\* closes the sockets and leaves connected_ false. After the loop gave up its
\* thread was never joined: assigning worker_thread_ (line 619) then ends the
\* process in std::terminate
ConnectBody(ok) ==
  /\ io_pc # "terminated"
  /\ IF connected_ \/ ~ok
       THEN UNCHANGED <<connected_, client_running_, io_pc, need_reconnect,
                        reconnect_attempts, dealer_out, dealer_in, sub_in,
                        since_last_reconnect_time>>
       ELSE /\ io_pc \in {"off", "stopped"}
            /\ connected_' = TRUE
            /\ client_running_' = TRUE
            /\ io_pc' = IF io_pc = "off" THEN "poll" ELSE "terminated"
            /\ need_reconnect' = FALSE
            /\ reconnect_attempts' = 0
            /\ since_last_reconnect_time' = 0
            /\ dealer_out' = {}
            /\ dealer_in' = {}
            /\ sub_in' = <<>>
  /\ UNCHANGED <<srv_vars, codec_vars, caller, requests, command_id_, pending_responses_, async_responses_,
                 returned,
                 async_log, slots_, slots_last_known_values_, sub_log, nupdates>>

\* Client::Connect called by the application
Connect(ok) ==
  /\ ConnectBody(ok)
  /\ ev' = NoEvent("Connect")

\* the head of every public request (lines 666, 693, 719, 746, 773) on a client
\* that is not connected: `if (!connected_ && !Connect())`; when Connect fails
\* the request returns its failure, else it goes on to build and send its command
RequestConnect(ok) ==
  /\ ~connected_
  /\ ConnectBody(ok)
  /\ ev' = [NoEvent("RequestConnect") EXCEPT !.same = ~connected_']

\* Client::Disconnect: if running_, clear it, send STOP, join the I/O thread and
\* close the sockets; then clear connected_
Disconnect ==
  /\ io_pc # "terminated"
  /\ IF client_running_
       THEN /\ client_running_' = FALSE
            /\ io_pc' = "off"
            /\ need_reconnect' = FALSE
            /\ reconnect_attempts' = 0
            /\ dealer_out' = {}
            /\ dealer_in' = {}
            /\ sub_in' = <<>>
       ELSE UNCHANGED <<client_running_, io_pc, need_reconnect, reconnect_attempts,
                        dealer_out, dealer_in, sub_in>>
  /\ connected_' = FALSE
  /\ ev' = NoEvent("Disconnect")
  /\ UNCHANGED <<srv_vars, codec_vars, caller, requests, since_last_reconnect_time, command_id_, pending_responses_, async_responses_,
                 returned,
                 async_log, slots_, slots_last_known_values_, sub_log, nupdates>>

\* Client::RegisterCallback
RegisterCallback(n) ==
  /\ io_pc # "terminated"
  /\ slots_' = slots_ \cup {n}
  /\ slots_last_known_values_' = Put(slots_last_known_values_, n, EmptyValue)
  /\ ev' = [NoEvent("RegisterCallback") EXCEPT !.name = n]
  /\ UNCHANGED <<srv_vars, codec_vars, caller, requests, since_last_reconnect_time, connected_, client_running_, command_id_,
                 pending_responses_,
                 async_responses_, returned, async_log, dealer_out, dealer_in, io_pc,
                 need_reconnect, reconnect_attempts, sub_in, sub_log, nupdates>>

\* a sync public call on a connected client: __GetNextCommandId, then
\* __SendCommandSync up to future.get(): register the promise and send under
\* dealer_mutex_; a zmq error on send erases the entry and is returned as an
\* error response (request_timeout_ms_ is -1, so the error is never EAGAIN)
SendCommandSync(send_ok) ==
  /\ connected_
  /\ io_pc # "terminated"
  /\ command_id_ < MaxRequests
  /\ LET cmd_id == command_id_
         cmd == SyncCommand(cmd_id)
     IN /\ command_id_' = command_id_ + 1
        /\ IF send_ok
             THEN /\ pending_responses_' = pending_responses_ \cup {cmd_id}
                  /\ dealer_out' = dealer_out \cup {cmd}
                  /\ returned' = returned
             ELSE /\ pending_responses_' = pending_responses_ \ {cmd_id}
                  /\ dealer_out' = dealer_out
                  /\ returned' = Put(returned, cmd_id, ErrorResponse(cmd_id, "ZeroMQ error"))
        /\ ev' = NoEvent("SendCommandSync")
  /\ UNCHANGED <<srv_vars, codec_vars, caller, requests, since_last_reconnect_time, connected_, client_running_, async_responses_, async_log,
                 dealer_in, io_pc, need_reconnect, reconnect_attempts, sub_vars>>

\* an async public call on a connected client: __GetNextCommandId, then
\* __SendCommandAsync: store the callback and send under dealer_mutex_ (a zmq
\* error on send leaves the entry and goes to the caller as an exception)
SendCommandAsync(callback, send_ok) ==
  /\ connected_
  /\ io_pc # "terminated"
  /\ command_id_ < MaxRequests
  /\ LET cmd_id == command_id_
         cmd == AsyncCommand(cmd_id)
     IN /\ command_id_' = command_id_ + 1
        /\ async_responses_' = Put(async_responses_, cmd_id, callback)
        /\ dealer_out' = IF send_ok THEN dealer_out \cup {cmd} ELSE dealer_out
        /\ ev' = NoEvent("SendCommandAsync")
  /\ UNCHANGED <<srv_vars, codec_vars, caller, requests, since_last_reconnect_time, connected_, client_running_, pending_responses_,
                 returned,
                 async_log, dealer_in, io_pc, need_reconnect, reconnect_attempts, sub_vars>>

\* ------------------------------------------------ Client: the wire to it
\* the server answers a request that reached it: __HandleCommand on its catalog
PeerReply(cmd) ==
  /\ io_pc \in {"poll", "reconnect"}
  /\ cmd \in dealer_out
  /\ dealer_out' = dealer_out \ {cmd}
  /\ dealer_in' = dealer_in \cup {HandleCommand(variables_, triggers_, cmd).response}
  /\ ev' = NoEvent("PeerReply")
  /\ UNCHANGED <<srv_vars, codec_vars, caller, requests, since_last_reconnect_time, connected_, client_running_, command_id_,
                 pending_responses_,
                 async_responses_, returned, async_log, io_pc, need_reconnect,
                 reconnect_attempts, sub_vars>>

\* a reply frame that answers no request reaches dealer_
PeerStray(cmd_id) ==
  /\ io_pc \in {"poll", "reconnect"}
  /\ cmd_id \notin pending_responses_ \cup DOMAIN async_responses_
  /\ ~(\E r \in dealer_in : r.message = "stray")
  /\ dealer_in' = dealer_in \cup {Success(ResponseMessage(cmd_id), "stray")}
  /\ ev' = NoEvent("PeerStray")
  /\ UNCHANGED <<srv_vars, codec_vars, caller, requests, since_last_reconnect_time, connected_, client_running_, command_id_,
                 pending_responses_,
                 async_responses_, returned, async_log, dealer_out, io_pc, need_reconnect,
                 reconnect_attempts, sub_vars>>

\* a VariableUpdate frame of the server's publisher reaches subscriber_
PeerPublish(varmsg) ==
  /\ io_pc \in {"poll", "reconnect"}
  /\ nupdates < MaxUpdates
  /\ nupdates' = nupdates + 1
  /\ sub_in' = Append(sub_in, varmsg)
  /\ ev' = [NoEvent("PeerPublish") EXCEPT !.name = varmsg.name, !.arg = varmsg.value]
  /\ UNCHANGED <<srv_vars, codec_vars, caller, requests, since_last_reconnect_time, connected_, client_running_, command_id_,
                 pending_responses_,
                 async_responses_, returned, async_log, dealer_out, dealer_in, io_pc,
                 need_reconnect, reconnect_attempts, slots_, slots_last_known_values_,
                 sub_log>>

\* ------------------------------------------ Client: the I/O thread's loop
\* __WorkerLoop lines 1012-1047: a reply on dealer_: the promise registered
\* under its command_id gets it (and the loop continues), else the async
\* callback registered under it is invoked and erased (an empty std::function
\* throws std::bad_function_call out of the thread), else it is dropped
LoopDealerReply(response) ==
  /\ io_pc = "poll"
  /\ response \in dealer_in
  /\ dealer_in' = dealer_in \ {response}
  /\ LET cmd_id == response.command_id
         sync == FindEntry(pending_responses_, cmd_id)
         async == FindEntry(DOMAIN async_responses_, cmd_id)
     IN IF sync # {}
          THEN LET it == CHOOSE k \in sync : TRUE
               IN /\ returned' = Put(returned, it, response)
                  /\ pending_responses_' = pending_responses_ \ {it}
                  /\ io_pc' = LoopTop(need_reconnect)
                  /\ UNCHANGED <<async_responses_, async_log>>
        ELSE IF async # {}
          THEN LET it == CHOOSE k \in async : TRUE
               IN IF async_responses_[it]
                    THEN /\ async_log' = Append(async_log, [id |-> it, response |-> response])
                         /\ async_responses_' = Drop(async_responses_, it)
                         /\ io_pc' = LoopTop(need_reconnect)
                         /\ UNCHANGED <<pending_responses_, returned>>
                    ELSE /\ io_pc' = "terminated"
                         /\ UNCHANGED <<pending_responses_, returned, async_responses_,
                                        async_log>>
        ELSE /\ io_pc' = LoopTop(need_reconnect)
             /\ UNCHANGED <<pending_responses_, returned, async_responses_, async_log>>
  /\ ev' = [NoEvent("DealerReply") EXCEPT !.resp = response]
  /\ UNCHANGED <<srv_vars, codec_vars, caller, requests, since_last_reconnect_time, connected_, client_running_, command_id_, dealer_out,
                 need_reconnect, reconnect_attempts, sub_vars>>

\* __WorkerLoop lines 1048-1058: recv on dealer_ throws
LoopDealerError ==
  /\ io_pc = "poll"
  /\ need_reconnect' = TRUE
  /\ since_last_reconnect_time' = 0
  /\ io_pc' = "reconnect"
  /\ ev' = NoEvent("DealerError")
  /\ UNCHANGED <<srv_vars, codec_vars, caller, requests, connected_, client_running_, command_id_,
                 pending_responses_,
                 async_responses_, returned, async_log, dealer_out, dealer_in,
                 reconnect_attempts, sub_vars>>

\* __WorkerLoop lines 1060-1084: a frame on subscriber_: for a name with a
\* callback, skip it when the last known value equals the received one, else
\* invoke the callback
LoopSubscriberMessage ==
  /\ io_pc = "poll"
  /\ sub_in # <<>>
  /\ LET varmsg == Head(sub_in)
         name == varmsg.name
         value == ExtractValue(varmsg)
         known == name \in DOMAIN slots_last_known_values_
                    /\ slots_last_known_values_[name] = value
         called == name \in slots_ /\ ~known
     IN /\ sub_in' = Tail(sub_in)
        /\ sub_log' = IF called
                        THEN Append(sub_log, [name |-> name, value |-> value])
                        ELSE sub_log
        /\ ev' = [NoEvent("SubscriberMessage") EXCEPT !.name = name, !.arg = value,
                     !.cbs = IF called THEN 1 ELSE 0]
  /\ io_pc' = LoopTop(need_reconnect)
  /\ UNCHANGED <<srv_vars, codec_vars, caller, requests, since_last_reconnect_time, connected_, client_running_, command_id_,
                 pending_responses_,
                 async_responses_, returned, async_log, dealer_out, dealer_in,
                 need_reconnect, reconnect_attempts, slots_, slots_last_known_values_,
                 nupdates>>

\* (mutant of SubscriberNeedsReconnect: no subscriber error asks for a reconnect)
SubscriberNeedsReconnect_Never(eagain) == FALSE

\* __WorkerLoop lines 1085-1094: the catch of the subscriber's recv: EAGAIN is
\* logged only, any other zmq error asks for a reconnect
SubscriberNeedsReconnect(eagain) == ~eagain

\* __WorkerLoop lines 1060-1095 when subscriber_->recv throws zmq::error_t
LoopSubscriberError(eagain) ==
  /\ io_pc = "poll"
  /\ need_reconnect' = (need_reconnect \/ SubscriberNeedsReconnect(eagain))
  /\ since_last_reconnect_time' =
       IF SubscriberNeedsReconnect(eagain) THEN 0 ELSE since_last_reconnect_time
  /\ io_pc' = LoopTop(need_reconnect')
  /\ ev' = NoEvent(IF eagain THEN "SubscriberTimeout" ELSE "SubscriberError")
  /\ UNCHANGED <<srv_vars, codec_vars, caller, requests, connected_, client_running_, command_id_,
                 pending_responses_,
                 async_responses_, returned, async_log, dealer_out, dealer_in,
                 reconnect_attempts, sub_vars>>

\* __WorkerLoop lines 924-989: the reconnect block below the attempt limit.
\* Before the delay has elapsed the loop goes on to poll. An attempt closes and
\* recreates both sockets; on success it resets the controller and cancels every
\* outstanding request; on a zmq error it counts the attempt, and the poll that
\* follows runs on the handles of the closed sockets (poll_ok: whether it
\* returns or throws out of the thread)
LoopReconnect(elapsed, ok, poll_ok) ==
  /\ io_pc = "reconnect"
  /\ need_reconnect
  /\ reconnect_attempts < max_reconnect_attempts
  /\ IF ~elapsed
       THEN /\ io_pc' = "poll"
            /\ ev' = NoEvent("ReconnectWait")
            /\ UNCHANGED <<connected_, pending_responses_, async_responses_, returned,
                           async_log, dealer_out, dealer_in, need_reconnect,
                           reconnect_attempts, sub_in,
                           since_last_reconnect_time>>
     ELSE IF ok
       THEN LET called == InOrder({k \in DOMAIN async_responses_ : async_responses_[k]})
            IN /\ reconnect_attempts' = 0
               /\ need_reconnect' = FALSE
               /\ connected_' = TRUE
               /\ UNCHANGED since_last_reconnect_time
               /\ returned' = [k \in DOMAIN returned \cup pending_responses_ |->
                                 IF k \in pending_responses_ THEN ResetResponse(k)
                                                             ELSE returned[k]]
               /\ pending_responses_' = {}
               /\ async_log' = async_log \o
                                 [i \in 1..Len(called) |->
                                    [id |-> called[i], response |-> ResetResponse(called[i])]]
               /\ async_responses_' = EmptyMap
               /\ dealer_out' = {}
               /\ dealer_in' = {}
               /\ sub_in' = <<>>
               /\ io_pc' = "poll"
               /\ ev' = NoEvent("ReconnectOk")
     ELSE /\ reconnect_attempts' = reconnect_attempts + 1
          /\ since_last_reconnect_time' = 0
          /\ dealer_out' = {}
          /\ dealer_in' = {}
          /\ sub_in' = <<>>
          /\ io_pc' = IF poll_ok THEN "poll" ELSE "terminated"
          /\ ev' = NoEvent("ReconnectFailed")
          /\ UNCHANGED <<connected_, pending_responses_, async_responses_, returned,
                         async_log, need_reconnect>>
  /\ UNCHANGED <<srv_vars, codec_vars, caller, requests, client_running_, command_id_, slots_,
                 slots_last_known_values_, sub_log, nupdates>>

\* __WorkerLoop lines 918-919
initial_reconnect_delay_ms == 100
max_reconnect_delay_ms == 5000

\* 1 << n on an int, for the n < 5 that line 925 lets through
ShiftLeftOne(n) == 2 ^ n

\* (mutant of ReconnectDelay: no backoff, the initial delay before every attempt)
ReconnectDelay_Flat(attempts) == initial_reconnect_delay_ms

\* delay_ms (lines 926-928)
ReconnectDelay(attempts) ==
  LET d == initial_reconnect_delay_ms * ShiftLeftOne(attempts)
  IN IF d < max_reconnect_delay_ms THEN d ELSE max_reconnect_delay_ms

\* __WorkerLoop lines 990-1008: the attempt limit is reached: clear connected_,
\* give every pending promise the failure response, clear both maps, clear
\* running_ and leave the loop
LoopGiveUp ==
  /\ io_pc = "reconnect"
  /\ need_reconnect
  /\ reconnect_attempts >= max_reconnect_attempts
  /\ connected_' = FALSE
  /\ returned' = [k \in DOMAIN returned \cup pending_responses_ |->
                    IF k \in pending_responses_ THEN GiveUpResponse(k) ELSE returned[k]]
  /\ pending_responses_' = {}
  /\ async_responses_' = EmptyMap
  /\ client_running_' = FALSE
  /\ io_pc' = "stopped"
  /\ ev' = NoEvent("GiveUp")
  /\ UNCHANGED <<srv_vars, codec_vars, caller, requests, since_last_reconnect_time, command_id_, async_log, dealer_out, dealer_in,
                 need_reconnect,
                 reconnect_attempts, sub_vars>>

\* ------------------------------------------------- the client specification
\* SpecClient: one client issuing sync and async requests, the replies arriving
\* in any order, a stray reply under the id the next request will take (it is
\* dropped, or taken for the reply to that request, whose own reply is then the
\* stray one), errors on dealer_, reconnect attempts and the give-up
NextClient ==
  \/ \E ok \in BOOLEAN : ~connected_ /\ Connect(ok)
  \/ Disconnect
  \/ \E send_ok \in BOOLEAN : SendCommandSync(send_ok)
  \/ \E callback \in BOOLEAN, send_ok \in BOOLEAN : SendCommandAsync(callback, send_ok)
  \/ \E cmd \in dealer_out : PeerReply(cmd)
  \/ PeerStray(command_id_)
  \/ \E response \in dealer_in : LoopDealerReply(response)
  \/ LoopDealerError
  \/ \E elapsed \in BOOLEAN, ok \in BOOLEAN, poll_ok \in BOOLEAN :
        LoopReconnect(elapsed, ok, poll_ok)
  \/ LoopGiveUp

SpecClient == Init /\ [][NextClient]_vars

\* ------------------------------------------------------ claims on SpecClient
\* C3 (correlation by command_id): whatever the number of requests in flight
\* and the order of the replies, a sync caller is returned a response carrying
\* the command_id of its own request and an async callback is invoked with a
\* response carrying the command_id of its own request; a reply is delivered to
\* the entry registered under its command_id, which is then removed, and a
\* reply whose command_id is in neither map invokes nothing and changes
\* neither map.
C3_Correlation ==
  /\ [](\A k \in DOMAIN returned : returned[k].command_id = k)
  /\ [](\A i \in 1..Len(async_log) : async_log[i].response.command_id = async_log[i].id)
  /\ [][ev'.op = "DealerReply" =>
          LET r == ev'.resp
              k == r.command_id
          IN IF k \in pending_responses_
               THEN /\ returned' = Put(returned, k, r)
                    /\ pending_responses_' = pending_responses_ \ {k}
                    /\ UNCHANGED <<async_responses_, async_log>>
             ELSE IF k \in DOMAIN async_responses_ /\ async_responses_[k]
               THEN /\ async_log' = Append(async_log, [id |-> k, response |-> r])
                    /\ async_responses_' = Drop(async_responses_, k)
                    /\ UNCHANGED <<pending_responses_, returned>>
             ELSE UNCHANGED <<pending_responses_, returned, async_responses_, async_log>>
      ]_vars

\* C3 witness: with the sync request 0 still waiting, the reply to the async
\* request 1 arrived first and its callback was invoked with it
C3_Witness ==
  /\ ev.op = "DealerReply"
  /\ ev.resp.command_id = 1
  /\ 0 \in pending_responses_
  /\ Len(async_log) = 1
  /\ async_log[1] = [id |-> 1, response |-> ev.resp]

\* C9 (cancellation on reconnect success): a successful reconnect attempt gives
\* every pending sync request, and the callback of every outstanding async
\* request, a failure response with the request's own command_id and the text
\* "Connection reset during operation"; after it both maps are empty, the
\* attempt counter is 0 and the loop is back in poll.
C9_CancelOnReconnect ==
  [][ev'.op = "ReconnectOk" =>
       LET failure(k) == [ResponseMessage(k) EXCEPT
                            !.success = FALSE,
                            !.error_message = "Connection reset during operation"]
           called == InOrder({k \in DOMAIN async_responses_ : async_responses_[k]})
       IN /\ \A k \in pending_responses_ :
                k \in DOMAIN returned' /\ returned'[k] = failure(k)
          /\ \A k \in DOMAIN returned : k \in DOMAIN returned' /\ returned'[k] = returned[k]
          /\ async_log' = async_log \o
                            [i \in 1..Len(called) |->
                               [id |-> called[i], response |-> failure(called[i])]]
          /\ pending_responses_' = {}
          /\ async_responses_' = EmptyMap
          /\ reconnect_attempts' = 0
          /\ ~need_reconnect'
          /\ connected_'
          /\ io_pc' = "poll"
    ]_vars

\* C9 witness: a reconnect succeeded while the sync
\* request 0 and the async request 1 were outstanding; both got the failure
C9_Witness ==
  /\ ev.op = "ReconnectOk"
  /\ 0 \in DOMAIN returned
  /\ returned[0].error_message = "Connection reset during operation"
  /\ Len(async_log) = 1
  /\ async_log[1].id = 1
  /\ async_log[1].response.error_message = "Connection reset during operation"
  /\ ~async_log[1].response.success
  /\ pending_responses_ = {} /\ async_responses_ = EmptyMap

\* C10 (cancellation on give-up), as claimed: when the attempts are exhausted
\* every pending sync request gets, and the callback of every outstanding async
\* request is invoked with, a failure response with the text "Failed to
\* reconnect after maximum attempts"; the loop exits and the client is not
\* operating.
C10_CancelOnGiveUp ==
  [][ev'.op = "GiveUp" =>
       LET failure(k) == [ResponseMessage(k) EXCEPT
                            !.success = FALSE,
                            !.error_message = "Failed to reconnect after maximum attempts"]
       IN /\ \A k \in pending_responses_ :
                k \in DOMAIN returned' /\ returned'[k] = failure(k)
          /\ \A k \in DOMAIN async_responses_ :
                async_responses_[k] =>
                  \E i \in (Len(async_log) + 1)..Len(async_log') :
                     async_log'[i] = [id |-> k, response |-> failure(k)]
          /\ pending_responses_' = {}
          /\ async_responses_' = EmptyMap
          /\ io_pc' = "stopped"
          /\ ~client_running_'
          /\ ~connected_'
    ]_vars

\* --------------------------------------------- the subscriber specification
\* the VariableUpdate frames received in the runs explored
Updates ==
  {VariableMessage(n, v, FALSE) :
     n \in Names, v \in {[kind |-> "int", v |-> 0], [kind |-> "int", v |-> 1], NotSet}}

\* SpecSubscriber: a connected client whose application registers its update
\* callbacks once per name, and the frames of the server's publisher
NextSubscriber ==
  \/ Connect(TRUE)
  \/ \E n \in Names : n \notin slots_ /\ RegisterCallback(n)
  \/ \E varmsg \in Updates : PeerPublish(varmsg)
  \/ LoopSubscriberMessage
  \/ \E eagain \in BOOLEAN : LoopSubscriberError(eagain)

SpecSubscriber == Init /\ [][NextSubscriber]_vars

\* -------------------------------------------------- claims on SpecSubscriber
\* C6 (client dedup), as claimed: for a name with a registered callback, two
\* consecutive VariableUpdates with equal values invoke the callback at most
\* once: two invocations for a name with no invocation for it in between never
\* carry equal values (the value delivered last is the one compared against).
C6_ClientDedup ==
  \A i \in 1..Len(sub_log), j \in 1..Len(sub_log) :
    (/\ i < j
     /\ sub_log[i].name = sub_log[j].name
     /\ \A k \in (i + 1)..(j - 1) : sub_log[k].name # sub_log[i].name)
    => sub_log[i].value # sub_log[j].value

\* ------------------------------------------- the closed-client specification
\* SpecClosed: a client that is connected, used, disconnected or driven to the
\* give-up, and public requests made on it while it is not connected
NextClosed ==
  \/ Connect(TRUE)
  \/ Disconnect
  \/ \E ok \in BOOLEAN : RequestConnect(ok)
  \/ SendCommandSync(TRUE)
  \/ SendCommandAsync(TRUE, TRUE)
  \/ \E cmd \in dealer_out : PeerReply(cmd)
  \/ \E response \in dealer_in : LoopDealerReply(response)
  \/ LoopDealerError
  \/ \E ok \in BOOLEAN : LoopReconnect(TRUE, ok, TRUE)
  \/ LoopGiveUp

SpecClosed == Init /\ [][NextClosed]_vars

\* ------------------------------------------------------ claims on SpecClosed
\* C11 (not connected), as claimed: a public request made right after
\* Disconnect, or right after the loop gave up, returns its not-connected
\* failure and leaves the client as it was: not connected, no I/O thread
\* started, no sockets opened, nothing sent.
C11_NotConnected ==
  [][(ev.op \in {"Disconnect", "GiveUp"} /\ ev'.op = "RequestConnect") =>
       /\ ev'.same
       /\ ~connected_'
       /\ UNCHANGED <<client_running_, io_pc, dealer_out, dealer_in>>
    ]_vars

\* ----------------------------------------------- the lifecycle specification
\* SpecLifecycle: a server that is started, stopped and started again any
\* number of times while a client writes "a", until it is destroyed
NextLifecycle ==
  \/ \E ro \in BOOLEAN :
        ev.op # "Destroy" /\ SetupVariable("a", [kind |-> "int", v |-> 0], ro, TRUE)
  \/ \E ok \in BOOLEAN : ev.op # "Destroy" /\ Start(ok)
  \/ ev.op # "Destroy" /\ Stop
  \/ ev.op # "Destroy" /\ Destroy
  \/ \E cmd \in SetCommands(peer_id["c1"]) :
        ev.op # "Destroy" /\ PeerSend("c1", cmd, MaxOps)
  \/ \E env \in router_in : ev.op # "Destroy" /\ HandleRouterMessage(env)
  \/ \E w \in Workers : ev.op # "Destroy" /\ WorkerRun(w)
  \/ \E w \in Workers : ev.op # "Destroy" /\ WorkerCallback(w, FALSE)
  \/ \E w \in Workers : ev.op # "Destroy" /\ WorkerReply(w)

SpecLifecycle == Init /\ [][NextLifecycle]_vars

\* --------------------------------------------------- claims on SpecLifecycle
\* C12 (lifecycle idempotence): Start on a running server returns true and
\* changes nothing; Stop on a server that is not running changes nothing;
\* destroying a running server does what Stop does: running_ cleared, sockets
\* closed, the catalog and the pool's work untouched.
C12_LifecycleIdempotence ==
  [][/\ (ev'.op = "Start" /\ running_) =>
          /\ ev'.same
          /\ UNCHANGED srv_vars
     /\ (ev'.op = "Stop" /\ ~running_) => UNCHANGED srv_vars
     /\ (ev'.op = "Destroy" /\ running_) =>
          /\ ~running_'
          /\ sockets' = "closed"
          /\ UNCHANGED <<variables_, triggers_, tasks_, worker, router_out, internal_pub>>
    ]_vars

\* C12 witness: Start was called on a running server that had a request waiting
\* on its router socket
C12_Witness ==
  /\ ev.op = "Start" /\ ev.present
  /\ running_ /\ sockets = "open"
  /\ router_in # {}

\* ------------------------------------------------- reads after writes
\* the requests of Client::SetVariable("a", int), Client::GetVariable("a") and
\* Client::GetAllVariables
ReadWriteCommands(id) ==
     {CommandMessage(id, "SET_VARIABLE", "", TRUE,
                     VariableMessage("a", [kind |-> "int", v |-> p], FALSE), FALSE, "") :
          p \in Payloads}
  \cup {CommandMessage(id, "GET_VARIABLE", "a", FALSE, NoVariableMessage, FALSE, ""),
        CommandMessage(id, "GET_ALL_VARIABLES", "", FALSE, NoVariableMessage, FALSE, "")}

\* SpecReadWrite: a writable int variable "a" on a started server and two
\* synchronous clients (each sends its next request after the reply to the last)
NextReadWrite ==
  \/ \E cb \in BOOLEAN : SetupVariable("a", [kind |-> "int", v |-> 0], FALSE, cb)
  \/ variables_["a"].present /\ ~running_ /\ nops = 0 /\ Start(TRUE)
  \/ \E c \in Clients : \E cmd \in ReadWriteCommands(peer_id[c]) :
        running_ /\ ~Outstanding(c) /\ PeerSend(c, cmd, MaxReadWrites)
  \/ \E env \in router_in : HandleRouterMessage(env)
  \/ \E w \in Workers : WorkerRun(w)
  \/ \E w \in Workers, throws \in BOOLEAN : WorkerCallback(w, throws)
  \/ \E w \in Workers : WorkerReply(w)

SpecReadWrite == Init /\ [][NextReadWrite]_vars

\* C13 (read-your-writes): once a client write of value v to a registered,
\* writable variable n of the same kind has been answered with success, and no
\* other write of n has happened since that write, a GET_VARIABLE of n is
\* answered with success and the value v, and the answer to GET_ALL_VARIABLES
\* holds an entry for n with the value v.
C13_ReadYourWrites ==
  /\ (ev.op = "Handle" /\ ev.req.command_type = "GET_VARIABLE"
        /\ acked[ev.req.variable_name] # NotSet) =>
        /\ ev.resp.success /\ ev.resp.has_variable
        /\ ev.resp.variable.name = ev.req.variable_name
        /\ ExtractValue(ev.resp.variable) = acked[ev.req.variable_name]
  /\ (ev.op = "Handle" /\ ev.req.command_type = "GET_ALL_VARIABLES") =>
        \A n \in Names : acked[n] # NotSet =>
           /\ ev.resp.success
           /\ \E m \in ev.resp.variables : m.name = n /\ ExtractValue(m) = acked[n]
           /\ \A m \in ev.resp.variables : m.name = n => ExtractValue(m) = acked[n]

\* C13 witness: a GET_VARIABLE is handled after an acknowledged write that
\* changed the value given at registration
C13_Witness ==
  /\ ev.op = "Handle" /\ ev.req.command_type = "GET_VARIABLE"
  /\ acked["a"] = [kind |-> "int", v |-> 1]
  /\ ev.resp.variable.value = [kind |-> "int", v |-> 1]

\* ---------------------------------------------------------- isolation
\* what the second client asks while the first client's write is in its
\* callback: a read of the same variable, a read or a write of another one,
\* a read of the whole catalog
OtherCommands(id) ==
  {CommandMessage(id, "GET_VARIABLE", "a", FALSE, NoVariableMessage, FALSE, ""),
   CommandMessage(id, "GET_VARIABLE", "b", FALSE, NoVariableMessage, FALSE, ""),
   CommandMessage(id, "SET_VARIABLE", "", TRUE,
                  VariableMessage("b", [kind |-> "int", v |-> 1], FALSE), FALSE, ""),
   CommandMessage(id, "GET_ALL_VARIABLES", "", FALSE, NoVariableMessage, FALSE, "")}

\* SpecIsolation: "a" has an on-change callback, "b" has none; client c1 writes
\* "a" once, client c2 sends its requests one after the other.  The I/O thread
\* and the pool threads run whenever they can; the callback of "a" may take any
\* time, and may never return.
NextIsolation ==
  \/ SetupVariable("a", [kind |-> "int", v |-> 0], FALSE, TRUE)
  \/ variables_["a"].present /\ SetupVariable("b", [kind |-> "int", v |-> 0], FALSE, FALSE)
  \/ variables_["b"].present /\ ~running_ /\ nops = 0 /\ Start(TRUE)
  \/ running_ /\ peer_id["c1"] = 0 /\ PeerSend("c1", AsyncCommand(0), MaxCommands)
  \/ \E cmd \in OtherCommands(peer_id["c2"]) :
        running_ /\ ~Outstanding("c2") /\ PeerSend("c2", cmd, MaxCommands)
  \/ \E env \in router_in : HandleRouterMessage(env)
  \/ \E w \in Workers : WorkerRun(w)
  \/ \E w \in Workers : WorkerCallback(w, FALSE)
  \/ \E w \in Workers : WorkerReply(w)

SpecIsolation ==
  /\ Init /\ [][NextIsolation]_vars
  /\ WF_vars(\E env \in router_in : HandleRouterMessage(env))
  /\ WF_vars(\E w \in Workers : WorkerRun(w))
  /\ \A w \in Workers : WF_vars(WorkerReply(w))

\* C14 (isolation): with a pool of two threads, every request of client c2 (a
\* read of "a", a read or write of "b", a read of the catalog) that reaches the
\* router socket is answered, also in the runs where the worker that handles
\* c1's write of "a" stays inside the on-change callback for ever.
C14_Isolation ==
  \A id \in 0..MaxCommands :
     (\E env \in router_in : env.identity = "c2" /\ env.command.command_id = id)
       ~> (\E r \in router_out : r.identity = "c2" /\ r.response.command_id = id)

\* C14 witness: a reply to c2 was sent while a worker is inside the callback of
\* c1's write
C14_Witness ==
  /\ ev.op = "Reply" /\ ev.name = "c2"
  /\ \E w \in Workers : worker[w].pc = "callback" /\ worker[w].env.identity = "c1"

\* ------------------------------------------------- notification order
\* the values of the frames of name n in a sequence of VariableMessages
ValuesOf(frames, n) ==
  LET f == SelectSeq(frames, LAMBDA m : m.name = n)
  IN [i \in 1..Len(f) |-> f[i].value]

\* C15 (notification order), as claimed: for each variable, once every request
\* taken by a worker has been answered, the values of the VariableUpdates
\* published for it are, in order, the values stored by the value-changing
\* writes of clients and server made while the server runs.
C15_NotificationOrder ==
  (\A w \in Workers : worker[w].pc = "idle") =>
     \A n \in Names : ValuesOf(internal_pub, n) = ValuesOf(mutations, n)

\* ----------------------------------------------------- no lost responses
\* SpecReplies: the runs of SpecDispatch in which the I/O thread and the pool
\* threads keep running and every user callback returns or throws
SpecReplies ==
  /\ Init /\ [][NextDispatch]_vars
  /\ WF_vars(\E env \in router_in : HandleRouterMessage(env))
  /\ WF_vars(\E w \in Workers : WorkerRun(w))
  /\ \A w \in Workers : WF_vars(\E throws \in BOOLEAN : WorkerCallback(w, throws))
  /\ \A w \in Workers : WF_vars(\E throws \in BOOLEAN : WorkerTriggerCallback(w, throws))
  /\ \A w \in Workers : WF_vars(WorkerReply(w))

\* C16 (no lost responses), as claimed: every command the I/O thread has read
\* from the router socket and queued is eventually answered by a reply to the
\* identity it came from, with its command_id.
C16_NoLostResponses ==
  \A c \in Clients : \A id \in 0..MaxCommands :
     (\E i \in 1..Len(tasks_) : tasks_[i].identity = c /\ tasks_[i].command.command_id = id)
       ~> (\E r \in router_out : r.identity = c /\ r.response.command_id = id)

\* --------------------------------------------- on-change callback origin
\* C17 (on-change callback origin): Server::SetVariable never invokes an
\* on-change callback, whether or not it changes the value; a client
\* SET_VARIABLE leaves its handler towards the callback exactly when it changed
\* the stored value of a variable that has one, the callback is then invoked
\* once with the value that write stored, and no other step invokes a callback.
C17_CallbackOrigin ==
  [][/\ ev'.op = "ServerSet" => cb_log' = cb_log
     /\ ev'.op = "HandleSet" =>
          /\ cb_log' = cb_log
          /\ (worker'[ev'.w].pc = "callback") <=>
                (~ev'.same /\ variables_[ev'.name].callback)
          /\ ~ev'.same => /\ worker'[ev'.w].value_cpy = ev'.arg
                          /\ variables_'[ev'.name].value = ev'.arg
     /\ ev'.op = "Callback" =>
          /\ worker[ev'.w].pc = "callback" /\ worker'[ev'.w].pc = "reply"
          /\ cb_log' = Append(cb_log, [name |-> ev'.req.variable.name,
                                       value |-> ev'.req.variable.value])
     /\ ev'.op \notin {"HandleSet", "Callback"} => cb_log' = cb_log
    ]_vars

\* C17 witness: the callback of "a" has run once, for a client write that
\* changed the value, with the value written
C17_Witness ==
  /\ ev.op = "Callback"
  /\ cb_log = <<[name |-> "a", value |-> ev.req.variable.value]>>
  /\ variables_["a"].value = ev.req.variable.value
  /\ variables_["a"].value.v = 1

\* ------------------------------------------------------ trigger execution
IsTrigger(cmd) == cmd.command_type = "EXECUTE_TRIGGER" /\ cmd.has_trigger

\* C18 (trigger execution), as claimed: a request naming a registered trigger
\* invokes its callback exactly once and is given a success response; a request
\* naming an unregistered trigger invokes no callback and is given the error
\* "Failed to execute trigger: <name>"; no other step invokes a trigger callback.
C18_TriggerExecution ==
  [][/\ (ev'.op = "Handle" /\ IsTrigger(ev'.req)) =>
           /\ trig_log' = trig_log
           /\ IF ev'.req.trigger \in triggers_
                THEN worker'[ev'.w].pc = "trigger_cb"
                ELSE /\ worker'[ev'.w].pc = "reply"
                     /\ ~ev'.resp.success
                     /\ ev'.resp.error_message =
                           "Failed to execute trigger: " \o ev'.req.trigger
     /\ ev'.op \in {"TriggerCallback", "TriggerThrew"} =>
           /\ ev'.req.trigger \in triggers_
           /\ trig_log' = [trig_log EXCEPT ![ev'.req.trigger] = @ + 1]
           /\ worker[ev'.w].pc = "trigger_cb" /\ worker'[ev'.w].pc = "reply"
           /\ worker'[ev'.w].response.success
           /\ worker'[ev'.w].response.command_id = ev'.req.command_id
     /\ (ev'.op = "Reply" /\ IsTrigger(ev'.req)) =>
           /\ trig_log' = trig_log
           /\ ev'.resp.success <=> ev'.req.trigger \in triggers_
     /\ ev'.op \notin {"TriggerCallback", "TriggerThrew"} => trig_log' = trig_log
    ]_vars

\* ------------------------------------------------------ zero-copy codec
\* constants of temp(zero-copy)/client.h:129-134
VAL_TYPE_NUMERIC == 1
VAL_TYPE_BOOL == 2
VAL_TYPE_STRING == 3
RESP_SUCCESS == 1
RESP_ERROR == 0
MSG_SET_VARIABLE == 2

\* `*reinterpret_cast<uint32_t*>(p) = n` and back (little endian)
U32Bytes(n) == <<n % 256, (n \div 256) % 256, (n \div 65536) % 256, (n \div 16777216) % 256>>
U32At(p, pos) == p[pos] + 256 * p[pos + 1] + 65536 * p[pos + 2] + 16777216 * p[pos + 3]

\* `*reinterpret_cast<double*>(p) = d` and back, for the doubles 0.0 and 1.0
\* (IEEE 754, little endian); any other bit pattern reads as some other double (2)
DoubleBytes(d) == IF d = 0 THEN <<0, 0, 0, 0, 0, 0, 0, 0>> ELSE <<0, 0, 0, 0, 0, 0, 240, 63>>
DoubleAt(p, pos) ==
  LET b == SubSeq(p, pos, pos + 7)
  IN IF b = DoubleBytes(0) THEN 0 ELSE IF b = DoubleBytes(1) THEN 1 ELSE 2

\* type tag and data of a value: __HandleGetVariableZeroCopy lines 275-294,
\* __HandleGetAllVariablesZeroCopy lines 418-440, __SendSetVariableCommand
\* lines 487-505
ZcValueBytes(value) ==
  IF value.kind = "double" THEN <<VAL_TYPE_NUMERIC>> \o DoubleBytes(value.v)
  ELSE IF value.kind = "bool" THEN <<VAL_TYPE_BOOL, value.v>>
  ELSE <<VAL_TYPE_STRING>> \o U32Bytes(Len(value.s)) \o value.s

\* name, NUL, read_only flag, value: lines 267-294 (and 408-440)
ZcVariableBytes(var) ==
  var.name \o <<0>> \o <<IF var.read_only THEN 1 ELSE 0>> \o ZcValueBytes(var.value)

RECURSIVE ZcConcat(_)
ZcConcat(seqs) == IF seqs = <<>> THEN <<>> ELSE Head(seqs) \o ZcConcat(Tail(seqs))

\* Server::__HandleGetVariableZeroCopy, the success reply
EncodeGetVariable(msg_id, var) == ZcWire(RESP_SUCCESS, msg_id, ZcVariableBytes(var))

\* Server::__HandleGetAllVariablesZeroCopy
EncodeGetAllVariables(msg_id, vs) ==
  ZcWire(RESP_SUCCESS, msg_id,
         U32Bytes(Len(vs)) \o ZcConcat([i \in 1..Len(vs) |-> ZcVariableBytes(vs[i])]))

\* Server::__CreateErrorResponse
EncodeError(msg_id, text) == ZcWire(RESP_ERROR, msg_id, text \o <<0>>)

\* Client::__SendSetVariableCommand: name, NUL, value (no read_only flag)
EncodeSetVariable(cmd_id, name, value) ==
  ZcWire(MSG_SET_VARIABLE, cmd_id, name \o <<0>> \o ZcValueBytes(value))

\* `std::string name(ptr)`: the index of the first NUL at or after pos, 0 when
\* the buffer holds none (the constructor then reads past the buffer)
NulAt(p, pos) ==
  LET z == {i \in pos..Len(p) : p[i] = 0}
  IN IF z = {} THEN 0 ELSE CHOOSE i \in z : \A j \in z : i <= j

\* the type tag at `at` and the data after it, as both parsers read them:
\* ok = every byte read lies inside the buffer; next = the position after the value
ZcValueAt(p, at) ==
  IF at > Len(p) THEN [ok |-> FALSE, value |-> ZcDefaultValue, next |-> at]
  ELSE IF p[at] = VAL_TYPE_NUMERIC
    THEN IF at + 8 > Len(p) THEN [ok |-> FALSE, value |-> ZcDefaultValue, next |-> at]
         ELSE [ok |-> TRUE, value |-> ZcValue("double", DoubleAt(p, at + 1), <<>>),
               next |-> at + 9]
  ELSE IF p[at] = VAL_TYPE_BOOL
    THEN IF at + 1 > Len(p) THEN [ok |-> FALSE, value |-> ZcDefaultValue, next |-> at]
         ELSE [ok |-> TRUE, value |-> ZcValue("bool", IF p[at + 1] = 0 THEN 0 ELSE 1, <<>>),
               next |-> at + 2]
  ELSE IF p[at] = VAL_TYPE_STRING
    THEN IF at + 4 > Len(p) \/ at + 4 + U32At(p, at + 1) > Len(p)
           THEN [ok |-> FALSE, value |-> ZcDefaultValue, next |-> at]
           ELSE [ok |-> TRUE,
                 value |-> ZcValue("string", 0,
                                   SubSeq(p, at + 5, at + 4 + U32At(p, at + 1))),
                 next |-> at + 5 + U32At(p, at + 1)]
  ELSE [ok |-> TRUE, value |-> ZcDefaultValue, next |-> at + 1]

\* the loop of __ParseResponse lines 367-393: `count` variables read from pos on
RECURSIVE ParseVariables(_, _, _, _)
ParseVariables(p, pos, count, acc) ==
  IF count = 0 THEN [ok |-> TRUE, variables |-> acc]
  ELSE LET nul == NulAt(p, pos)
           val == ZcValueAt(p, nul + 2)
       IN IF nul = 0 \/ nul + 1 > Len(p) \/ ~val.ok
            THEN [ok |-> FALSE, variables |-> acc]
            ELSE ParseVariables(p, val.next, count - 1,
                                Append(acc, [name |-> SubSeq(p, pos, nul - 1),
                                             value |-> val.value]))

\* the loop of __ParseResponse lines 401-405: `count` trigger names
RECURSIVE ParseTriggers(_, _, _, _)
ParseTriggers(p, pos, count, acc) ==
  IF count = 0 THEN [ok |-> TRUE, triggers |-> acc]
  ELSE LET nul == NulAt(p, pos)
       IN IF nul = 0 THEN [ok |-> FALSE, triggers |-> acc]
          ELSE ParseTriggers(p, nul + 1, count - 1, Append(acc, SubSeq(p, pos, nul - 1)))

\* what a read past the end of the reply buffer can end in: the process dies;
\* an allocation fails and __SendAndReceive's catch (client.cpp:328-332) returns a
\* "Communication error" Response; or the loop ends on whatever bytes follow and
\* returns a success Response with entries that were never sent
ZcUndefined ==
  {[ZcResponse EXCEPT !.crashed = TRUE],
   [ZcResponse EXCEPT !.error_message = <<67>>],
   [ZcResponse EXCEPT !.success = TRUE,
                      !.variables = <<[name |-> <<>>, value |-> ZcDefaultValue]>>]}

\* Client::__ParseResponse: the Responses the call can produce for a reply
ParseResponse(reply) ==
  LET p == reply.payload
      size == Len(p)
  IN IF reply.msg_type = RESP_ERROR
       THEN IF NulAt(p, 1) = 0 THEN ZcUndefined
            ELSE {[ZcResponse EXCEPT !.error_message = SubSeq(p, 1, NulAt(p, 1) - 1)]}
     ELSE IF reply.msg_type # RESP_SUCCESS THEN {ZcResponse}
     ELSE IF reply.payload_size = 0 THEN {[ZcResponse EXCEPT !.success = TRUE]}
     ELSE IF p[1] > 0 /\ size > 4
       THEN LET r == ParseVariables(p, 5, U32At(p, 1), <<>>)
            IN IF r.ok THEN {[ZcResponse EXCEPT !.success = TRUE, !.variables = r.variables]}
               ELSE ZcUndefined
     ELSE IF size > 4
       THEN LET r == ParseTriggers(p, 5, U32At(p, 1), <<>>)
            IN IF r.ok THEN {[ZcResponse EXCEPT !.success = TRUE, !.triggers = r.triggers]}
               ELSE ZcUndefined
     ELSE LET nul == NulAt(p, 1)
              val == ZcValueAt(p, nul + 2)
          IN IF nul = 0 \/ nul + 1 > size \/ ~val.ok THEN ZcUndefined
             ELSE {[ZcResponse EXCEPT !.success = TRUE, !.value = val.value]}

\* Server::__HandleSetVariableZeroCopy lines 301-329: prop_name and new_value as
\* the server reads them from the request
ParseSetVariable(request) ==
  LET p == request.payload
      nul == NulAt(p, 1)
      val == ZcValueAt(p, nul + 1)
  IN IF nul = 0 \/ ~val.ok THEN ZcUndefined
     ELSE IF p[nul + 1] \notin {VAL_TYPE_NUMERIC, VAL_TYPE_BOOL, VAL_TYPE_STRING}
       THEN {[ZcResponse EXCEPT !.error_message = <<73>>]}
     ELSE {[ZcResponse EXCEPT !.success = TRUE, !.name = SubSeq(p, 1, nul - 1),
                              !.value = val.value]}

\* the messages encoded in the runs explored: names "a" and "b1", the values
\* false, true, 0.0, 1.0, "" and "x", two catalogs, two error texts
ZcNames == {<<97>>, <<98, 49>>}
ZcValues == {ZcValue("bool", 0, <<>>), ZcValue("bool", 1, <<>>),
             ZcValue("double", 0, <<>>), ZcValue("double", 1, <<>>),
             ZcValue("string", 0, <<>>), ZcValue("string", 0, <<120>>)}
ZcCatalogs ==
  {<<>>,
   <<ZcVariable(<<97>>, FALSE, ZcValue("double", 1, <<>>))>>,
   <<ZcVariable(<<97>>, TRUE, ZcValue("bool", 1, <<>>)),
     ZcVariable(<<98, 49>>, FALSE, ZcValue("string", 0, <<120>>))>>}
ZcTexts == {<<69>>, <<69, 114>>}
ZcIds == {1, 2}

\* the server answers a GetVariable
ServerReplyGetVariable(msg_id, var) ==
  /\ zc_pc = "idle"
  /\ zc_pc' = "reply"
  /\ zc_msg' = ZcMessage("GetVariable", msg_id, <<var>>, <<>>)
  /\ zc_wire' = EncodeGetVariable(msg_id, var)
  /\ UNCHANGED <<srv_vars, cl_vars, caller, requests, since_last_reconnect_time, zc_parsed, ev>>

\* the server answers a GetAllVariables
ServerReplyGetAllVariables(msg_id, vs) ==
  /\ zc_pc = "idle"
  /\ zc_pc' = "reply"
  /\ zc_msg' = ZcMessage("GetAllVariables", msg_id, vs, <<>>)
  /\ zc_wire' = EncodeGetAllVariables(msg_id, vs)
  /\ UNCHANGED <<srv_vars, cl_vars, caller, requests, since_last_reconnect_time, zc_parsed, ev>>

\* the server answers with an error
ServerReplyError(msg_id, text) ==
  /\ zc_pc = "idle"
  /\ zc_pc' = "reply"
  /\ zc_msg' = ZcMessage("Error", msg_id, <<>>, text)
  /\ zc_wire' = EncodeError(msg_id, text)
  /\ UNCHANGED <<srv_vars, cl_vars, caller, requests, since_last_reconnect_time, zc_parsed, ev>>

\* the client sends a SetVariable
ClientSendSetVariable(cmd_id, name, value) ==
  /\ zc_pc = "idle"
  /\ zc_pc' = "request"
  /\ zc_msg' = ZcMessage("SetVariable", cmd_id, <<ZcVariable(name, FALSE, value)>>, <<>>)
  /\ zc_wire' = EncodeSetVariable(cmd_id, name, value)
  /\ UNCHANGED <<srv_vars, cl_vars, caller, requests, since_last_reconnect_time, zc_parsed, ev>>

\* Client::__SendAndReceive line 326: `return __ParseResponse(reply);`
ClientParseResponse ==
  /\ zc_pc = "reply"
  /\ zc_pc' = "parsed"
  /\ zc_parsed' \in ParseResponse(zc_wire)
  /\ UNCHANGED <<srv_vars, cl_vars, caller, requests, since_last_reconnect_time, zc_msg, zc_wire, ev>>

\* the server reads the SetVariable request
ServerParseSetVariable ==
  /\ zc_pc = "request"
  /\ zc_pc' = "parsed"
  /\ zc_parsed' \in ParseSetVariable(zc_wire)
  /\ UNCHANGED <<srv_vars, cl_vars, caller, requests, since_last_reconnect_time, zc_msg, zc_wire, ev>>

NextCodec ==
  \/ \E id \in ZcIds, n \in ZcNames, ro \in BOOLEAN, v \in ZcValues :
        ServerReplyGetVariable(id, ZcVariable(n, ro, v))
  \/ \E id \in ZcIds, vs \in ZcCatalogs : ServerReplyGetAllVariables(id, vs)
  \/ \E id \in ZcIds, text \in ZcTexts : ServerReplyError(id, text)
  \/ \E id \in ZcIds, n \in ZcNames, v \in ZcValues : ClientSendSetVariable(id, n, v)
  \/ ClientParseResponse
  \/ ServerParseSetVariable

SpecCodec == Init /\ [][NextCodec]_vars

\* the Response (or request reading) that holds exactly what was encoded
ZcDecoded(msg) ==
  IF msg.kind = "GetVariable"
    THEN [ZcResponse EXCEPT !.success = TRUE, !.value = msg.variables[1].value]
  ELSE IF msg.kind = "GetAllVariables"
    THEN [ZcResponse EXCEPT !.success = TRUE,
            !.variables = [i \in 1..Len(msg.variables) |->
                             [name |-> msg.variables[i].name,
                              value |-> msg.variables[i].value]]]
  ELSE IF msg.kind = "Error"
    THEN [ZcResponse EXCEPT !.error_message = msg.text]
  ELSE [ZcResponse EXCEPT !.success = TRUE, !.name = msg.variables[1].name,
                          !.value = msg.variables[1].value]

\* C19 (codec round trip), as claimed: what the receiver decodes from the
\* encoded bytes is the message that was encoded; a GetVariable success reply is
\* decoded as the one variable, with the value sent.
C19_CodecRoundTrip ==
  zc_pc = "parsed" => zc_parsed = ZcDecoded(zc_msg)

\* ------------------------------------------------------ optional callback
\* C20 (optional callback), as claimed: when the reply to an Async request sent
\* without a callback arrives, the I/O loop consumes it, removes the request's
\* correlation entry and keeps running.
C20_OptionalCallback ==
  [][(/\ ev'.op = "DealerReply"
      /\ ev'.resp.command_id \notin pending_responses_
      /\ ev'.resp.command_id \in DOMAIN async_responses_
      /\ ~async_responses_[ev'.resp.command_id]) =>
        /\ ev'.resp \notin dealer_in'
        /\ ev'.resp.command_id \notin DOMAIN async_responses_'
        /\ io_pc' \in {"poll", "reconnect"}
    ]_vars

\* ------------------------------------- Client: SetVariable / ExecuteTrigger
\* the request Client::ExecuteTrigger builds (lines 778-783)
TriggerCommand(id) ==
  CommandMessage(id, "EXECUTE_TRIGGER", "", FALSE, NoVariableMessage, TRUE, "capture")

\* `callback(response)` on lines 765 and 791: an empty std::function throws
\* std::bad_function_call, which leaves the public call
SyncDone(id, callback, sent) ==
  IF callback THEN Caller("returned", id, TRUE, callback, sent, TRUE)
  ELSE Caller("threw", id, TRUE, callback, sent, FALSE)

\* Client::SetVariable / Client::ExecuteTrigger on a connected client (the
\* head `!connected_ && !Connect()` is false): __GetNextCommandId, then
\*  - AsyncConnection: __SendCommandAsync, return true; a zmq error on send is
\*    not caught and leaves the call as an exception;
\*  - SyncConnection: __SendCommandSync; a zmq error on send comes back as an
\*    error response, callback(response) is called and the call returns true;
\*    else the caller blocks in response_future.get()
PublicCall(op, cmd, sync, callback, send_ok) ==
  /\ connected_
  /\ io_pc # "terminated"
  /\ caller.pc # "waiting"
  /\ command_id_ < MaxRequests
  /\ LET cmd_id == command_id_
     IN /\ command_id_' = command_id_ + 1
        /\ dealer_out' = IF send_ok THEN dealer_out \cup {cmd} ELSE dealer_out
        /\ IF sync
             THEN /\ pending_responses_' =
                       IF send_ok THEN pending_responses_ \cup {cmd_id}
                       ELSE pending_responses_ \ {cmd_id}
                  /\ returned' =
                       IF send_ok THEN returned
                       ELSE Put(returned, cmd_id, ErrorResponse(cmd_id, "ZeroMQ error"))
                  /\ caller' = IF send_ok
                                 THEN Caller("waiting", cmd_id, TRUE, callback, TRUE, FALSE)
                                 ELSE SyncDone(cmd_id, callback, FALSE)
                  /\ UNCHANGED async_responses_
             ELSE /\ async_responses_' = Put(async_responses_, cmd_id, callback)
                  /\ caller' = IF send_ok
                                 THEN Caller("returned", cmd_id, FALSE, callback, TRUE, TRUE)
                                 ELSE Caller("threw", cmd_id, FALSE, callback, FALSE, FALSE)
                  /\ UNCHANGED <<pending_responses_, returned>>
  /\ ev' = NoEvent(op)
  /\ UNCHANGED <<srv_vars, codec_vars, requests, since_last_reconnect_time, connected_, client_running_, async_log, dealer_in,
                 io_pc, need_reconnect, reconnect_attempts, sub_vars>>

\* Client::SetVariable("a", 1, connection_option, callback)
ClientSetVariable(sync, callback, send_ok) ==
  PublicCall("SetVariable", AsyncCommand(command_id_), sync, callback, send_ok)

\* Client::ExecuteTrigger("capture", connection_option, callback)
ClientExecuteTrigger(sync, callback, send_ok) ==
  PublicCall("ExecuteTrigger", TriggerCommand(command_id_), sync, callback, send_ok)

\* the same calls on a client that is not connected and whose Connect fails
\* (lines 746-749, 773-776): false is returned, nothing else happens
PublicCallRefused ==
  /\ ~connected_
  /\ io_pc # "terminated"
  /\ caller.pc # "waiting"
  /\ caller' = Caller("returned", -1, FALSE, FALSE, FALSE, FALSE)
  /\ ev' = [NoEvent("RequestConnect") EXCEPT !.same = TRUE]
  /\ UNCHANGED <<srv_vars, codec_vars, requests, cl_vars, since_last_reconnect_time>>

\* the sync call's second half (lines 764-766, 790-792): response_future.get()
\* returns what the I/O thread put in the promise, callback(response), return true
PublicCallReturn ==
  /\ caller.pc = "waiting"
  /\ caller.id \in DOMAIN returned
  /\ caller' = SyncDone(caller.id, caller.callback, TRUE)
  /\ ev' = NoEvent("Return")
  /\ UNCHANGED <<srv_vars, codec_vars, requests, cl_vars, since_last_reconnect_time>>

\* --------------------------------------------- the public-call specification
\* SpecCalls: an application thread calls SetVariable and ExecuteTrigger, in
\* either mode, with or without a callback, on a client that connects and
\* disconnects, whose sends may fail and whose server answers
NextCalls ==
  \/ \E ok \in BOOLEAN : Connect(ok)
  \/ Disconnect
  \/ PublicCallRefused
  \/ \E sync, callback, send_ok \in BOOLEAN : ClientSetVariable(sync, callback, send_ok)
  \/ \E sync, callback, send_ok \in BOOLEAN : ClientExecuteTrigger(sync, callback, send_ok)
  \/ PublicCallReturn
  \/ \E cmd \in dealer_out : PeerReply(cmd)
  \/ \E response \in dealer_in : LoopDealerReply(response)
  \/ LoopDealerError

SpecCalls == Init /\ [][NextCalls]_vars

\* ------------------------------------------------------- claims on SpecCalls
\* C21 (return value), as claimed: a SetVariable or ExecuteTrigger call that
\* was given a callback ends by returning, and what it returns is whether the
\* command was sent on the dealer socket
C21_ReturnValue ==
  (caller.pc \in {"returned", "threw"} /\ caller.callback) =>
     /\ caller.pc = "returned"
     /\ caller.result = caller.sent

\* ------------------------------------------------------ claims on SpecClosed
\* the I/O thread has been joined (or was never started) and dealer_,
\* subscriber_ and inproc_recv_ are closed (or were never opened): Disconnect
\* does both in one block (lines 648-658), the loop's give-up path does neither
Released == io_pc = "off"

\* C22 (resource release on close), as claimed: whenever Disconnect returns,
\* also after the loop gave up by itself, the I/O thread has been joined and
\* the three sockets are closed
C22_ResourceRelease ==
  [][ev'.op = "Disconnect" => Released']_vars

\* ----------------------------------------------- the reconnect specification
\* the steady clock is read in steps of TickMs; readings past MaxElapsedMs
\* are not told apart (the longest delay is 1600 ms)
TickMs == 100
MaxElapsedMs == 1700

\* time passes
Tick ==
  /\ io_pc \in {"poll", "reconnect"}
  /\ since_last_reconnect_time < MaxElapsedMs
  /\ since_last_reconnect_time' =
       IF since_last_reconnect_time + TickMs < MaxElapsedMs
         THEN since_last_reconnect_time + TickMs ELSE MaxElapsedMs
  /\ ev' = NoEvent("Tick")
  /\ UNCHANGED <<srv_vars, codec_vars, cl_vars, caller, requests>>

\* the reconnect block with `elapsed >= delay_ms` read from the clock (lines
\* 930-934)
LoopReconnectTimed(ok, poll_ok) ==
  LoopReconnect(since_last_reconnect_time >= ReconnectDelay(reconnect_attempts), ok, poll_ok)

\* SpecReconnect: a connected client whose dealer and subscriber raise errors
\* while time passes; the loop, woken from zmq::poll by them, waits, attempts
\* to reconnect, succeeds or fails, and gives up
NextReconnect ==
  \/ Connect(TRUE)
  \/ Disconnect
  \/ Tick
  \/ LoopDealerError
  \/ \E eagain \in BOOLEAN : LoopSubscriberError(eagain)
  \/ \E ok, poll_ok \in BOOLEAN : LoopReconnectTimed(ok, poll_ok)
  \/ LoopGiveUp

SpecReconnect == Init /\ [][NextReconnect]_vars

\* --------------------------------------------------- claims on SpecReconnect
\* C23 (bounded reconnect with backoff): a reconnect attempt is made only with
\* fewer than 5 failed attempts behind it, and attempt k only when
\* min(100 * 2^k, 5000) ms have passed since the error or the last failed
\* attempt; a failed attempt adds one to the counter, a successful one resets
\* it to 0; the loop gives up only with 5 failed attempts, and with 5 failed
\* attempts it does nothing else at the reconnect block.
C23_BoundedReconnect ==
  [][/\ ev'.op \in {"ReconnectOk", "ReconnectFailed"} =>
          /\ reconnect_attempts \in 0..4
          /\ LET d == 100 * 2 ^ reconnect_attempts
             IN since_last_reconnect_time >= (IF d < 5000 THEN d ELSE 5000)
     /\ ev'.op = "ReconnectFailed" => reconnect_attempts' = reconnect_attempts + 1
     /\ ev'.op = "ReconnectOk" => reconnect_attempts' = 0
     /\ ev'.op = "GiveUp" => reconnect_attempts = 5
     /\ (io_pc = "reconnect" /\ reconnect_attempts = 5 /\ io_pc' # "reconnect") =>
          ev'.op \in {"GiveUp", "Disconnect"}
    ]_vars

\* C23 witness: the loop gave up: five attempts in a row had failed, each
\* after its delay
C23_Witness ==
  /\ ev.op = "GiveUp"
  /\ reconnect_attempts = 5
  /\ io_pc = "stopped"

\* C24 (subscriber errors), as claimed: no error raised by the subscriber's
\* recv, timeout or other, changes need_reconnect
C24_SubscriberNeverReconnects ==
  [][ev'.op \in {"SubscriberTimeout", "SubscriberError"} =>
       need_reconnect' = need_reconnect]_vars

\* C24 (subscriber errors), amended: a receive timeout (EAGAIN) on the
\* subscriber leaves need_reconnect as it was; any other transport error on
\* the subscriber sets it and restarts the delay, as a dealer error does; and
\* need_reconnect is set by nothing but these two kinds of error.
C24_SubscriberTimeoutOnly ==
  [][/\ ev'.op = "SubscriberTimeout" =>
          /\ need_reconnect' = need_reconnect
          /\ since_last_reconnect_time' = since_last_reconnect_time
     /\ ev'.op = "SubscriberError" =>
          /\ need_reconnect'
          /\ io_pc' = "reconnect"
          /\ since_last_reconnect_time' = 0
     /\ (~need_reconnect /\ need_reconnect') =>
          ev'.op \in {"DealerError", "SubscriberError"}
    ]_vars

\* C24 witness: a transport error on the subscriber, on a client that had seen
\* no error since it connected, sent the loop to its reconnect block
C24_Witness ==
  /\ ev.op = "SubscriberError"
  /\ need_reconnect
  /\ io_pc = "reconnect"
  /\ reconnect_attempts = 0
  /\ connected_

\* C25 (dealer errors), as claimed: an error on the dealer's recv sends the
\* loop to its reconnect block, and a SetVariable or ExecuteTrigger call whose
\* send on the dealer fails sets need_reconnect too
C25_DealerErrorsReconnect ==
  [][/\ ev'.op = "DealerError" => (need_reconnect' /\ io_pc' = "reconnect")
     /\ (ev'.op \in {"SetVariable", "ExecuteTrigger"} /\ ~caller'.sent) => need_reconnect'
    ]_vars

\* ----------------------------------------- further claims on SpecServer
\* C26 (check order): a client SET_VARIABLE naming no registered variable is
\* answered "Variable not found"; else, if the variable is read-only, READ
\* ONLY, whatever the kind of the value sent; else, if the kind sent differs
\* from the stored kind, "Type mismatch". In each of the three outcomes the
\* catalog is what it was and the worker goes straight to the reply, invoking
\* no callback.
C26_CheckOrder ==
  ev.op = "HandleSet" =>
    LET response == worker[ev.w].response
        refused == /\ ~response.success
                   /\ ev.same
                   /\ worker[ev.w].pc = "reply"
                   /\ ~worker[ev.w].changed
                   /\ ev.cbs = 0
    IN /\ ~ev.present =>
            (refused /\ response.error_message = "Variable not found")
       /\ (ev.present /\ ev.ro) =>
            (refused /\ response.error_message = "Variable is READ ONLY")
       /\ (ev.present /\ ~ev.ro /\ ev.arg.kind # ev.old.kind) =>
            /\ refused
            /\ response.error_message \in
                 {"Type mismatch: is " \o k \o ", but received non-" \o k \o " value" :
                    k \in {"double", "int", "boolean", "string"}}

\* C26 witness: a value of another kind was sent for a read-only variable that
\* has a callback, and the answer is READ ONLY
C26_Witness ==
  /\ ev.op = "HandleSet"
  /\ ev.present /\ ev.ro
  /\ ev.arg.kind \in Kinds /\ ev.arg.kind # ev.old.kind
  /\ variables_[ev.name].callback
  /\ worker[ev.w].response.error_message = "Variable is READ ONLY"

ServerGetVariable(n) ==
  /\ ev' = [NoEvent("ServerGet") EXCEPT !.name = n, !.present = Find(variables_, n).present,
               !.new = IF Find(variables_, n).present THEN Find(variables_, n).value
                       ELSE EmptyValue]
  /\ UNCHANGED <<srv_vars, cl_vars, codec_vars, caller, requests, since_last_reconnect_time>>

\* the body of an on-change or trigger callback that worker w is about to
\* invoke calls Server::SetVariable, Server::GetVariable or
\* Server::RegisterVariable, each of which starts by locking variables_mutex_
\* (lines 91, 118, 130): a std::mutex its own thread holds never comes free,
\* one another thread holds is waited for
CallbackCalls(w) ==
  /\ worker[w].pc \in {"callback", "trigger_cb"}
  /\ IF "variables_mutex_" \in worker[w].held
       THEN /\ worker' = [worker EXCEPT ![w].pc = "deadlocked"]
            /\ ev' = [NoEvent("Deadlock") EXCEPT !.w = w]
            /\ UNCHANGED <<cl_vars, codec_vars, caller, requests, since_last_reconnect_time, router_frames, pool_vars, variables_,
                           triggers_, running_, sockets, router_in, tasks_, router_out,
                           internal_pub, cb_log, trig_log, peer_id, nops, reg_kind, acked,
                           mutations>>
       ELSE /\ Free(worker, w, {"variables_mutex_"})
            /\ \/ ServerSetVariableUpTo("a", [kind |-> "int", v |-> 0], MaxCommands + MaxOps)
               \/ ServerGetVariable("a")
               \/ RegisterVariable("b", [kind |-> "bool", v |-> 1], FALSE, FALSE)

\* -------------------------------------------------- the locks specification
\* the requests that lead to a callback, and the two reads
LockCommands(id) ==
     {CommandMessage(id, "SET_VARIABLE", "", TRUE,
                     VariableMessage("a", [kind |-> "int", v |-> 1], FALSE), FALSE, "")}
  \cup {CommandMessage(id, "EXECUTE_TRIGGER", "", FALSE, NoVariableMessage, TRUE, t) :
          t \in Triggers}
  \cup {CommandMessage(id, t, "", FALSE, NoVariableMessage, FALSE, "") :
          t \in {"GET_ALL_VARIABLES", "GET_ALL_TRIGGERS"}}

\* SpecLocks: an int variable "a" with a callback and a trigger; two peers
\* send writes, trigger executions and reads, and the callbacks call back into
\* the server
NextLocks ==
  \/ SetupVariable("a", [kind |-> "int", v |-> 0], FALSE, TRUE)
  \/ variables_["a"].present /\ (\E t \in Triggers : SetupTrigger(t))
  \/ triggers_ # {} /\ Start(TRUE)
  \/ \E c \in Clients : \E cmd \in LockCommands(peer_id[c]) :
        ~Outstanding(c) /\ PeerSend(c, cmd, MaxCommands)
  \/ \E env \in router_in : HandleRouterMessage(env)
  \/ \E w \in Workers : WorkerRun(w)
  \/ \E w \in Workers : CallbackCalls(w)
  \/ \E w \in Workers : WorkerCallback(w, FALSE)
  \/ \E w \in Workers : WorkerTriggerCallback(w, FALSE)
  \/ \E w \in Workers : WorkerReply(w)

SpecLocks == Init /\ [][NextLocks]_vars

\* ------------------------------------------------------- claims on SpecLocks
\* C28 (server callbacks run outside locks): a worker about to invoke an
\* on-change callback or a trigger callback holds none of variables_mutex_,
\* triggers_mutex_ and router_mutex_, and no worker is ever stuck on a mutex it
\* holds itself when the callback calls Server::SetVariable, GetVariable or
\* RegisterVariable.
C28_ServerCallbacksOutsideLocks ==
  \A w \in Workers :
     /\ worker[w].pc \in {"callback", "trigger_cb"} => worker[w].held \cap Mutexes = {}
     /\ worker[w].pc # "deadlocked"

\* C28 witness: Server::SetVariable, called from the on-change callback of a
\* client's write of "a", has changed the value of "a" back while the worker
\* is still inside the callback
C28_Witness ==
  /\ ev.op = "ServerSet" /\ ev.name = "a" /\ ~ev.same
  /\ \E w \in Workers :
        /\ worker[w].pc = "callback"
        /\ worker[w].locked = {"variables_mutex_"}
        /\ worker[w].env.command.variable.name = "a"

\* C30 (trigger catalog locking), as claimed: a worker that ran the
\* GET_ALL_TRIGGERS handler, which iterates triggers_, took triggers_mutex_ for
\* it, as the worker that ran EXECUTE_TRIGGER did for its find
C30_TriggerCatalogLocking ==
  \A w \in Workers :
     (/\ worker[w].pc # "idle"
      /\ \/ worker[w].env.command.command_type = "GET_ALL_TRIGGERS"
         \/ worker[w].env.command.command_type = "EXECUTE_TRIGGER" /\
              worker[w].env.command.has_trigger) =>
        "triggers_mutex_" \in worker[w].locked

\* ---------------------------------- Client: callbacks that call the client
\* the mutex the I/O thread holds where it invokes an async response callback
\* (`it->second(response)` on line 1042 is inside the lock_guard scope of
\* lines 1038-1045; `callback(error_response)` on line 979 inside the one
\* opened on line 961) and a subscription callback (`it->second(value)` on
\* line 1080 inside the one opened on line 1069)
HeldAtAsyncCallback == {"dealer_mutex_"}
HeldAtSubscriptionCallback == {"callbacks_mutex_"}

\* the mutex a public call made from a callback starts by locking:
\* __SendCommandAsync (line 895) and RegisterCallback (line 798)
NeededBy(call) ==
  IF call = "SetVariable" THEN {"dealer_mutex_"} ELSE {"callbacks_mutex_"}

\* what the call leaves behind once it has its mutex: Client::SetVariable("a",
\* 1, AsyncConnection, callback) or Client::RegisterCallback("b", callback)
AfterCall(call, responses) ==
  IF call = "SetVariable"
    THEN [command_id_ |-> command_id_ + 1,
          async_responses_ |-> Put(responses, command_id_, TRUE),
          dealer_out |-> dealer_out \cup {AsyncCommand(command_id_)},
          slots_ |-> slots_,
          slots_last_known_values_ |-> slots_last_known_values_]
    ELSE [command_id_ |-> command_id_,
          async_responses_ |-> responses,
          dealer_out |-> dealer_out,
          slots_ |-> slots_ \cup {"b"},
          slots_last_known_values_ |-> Put(slots_last_known_values_, "b", EmptyValue)]

\* __WorkerLoop lines 1037-1046 for a reply whose async callback calls the
\* client: locking a std::mutex the thread already owns is undefined: the
\* thread blocks for ever, or std::system_error leaves the thread's function
AsyncCallbackCalls(response, call, outcome) ==
  /\ io_pc = "poll"
  /\ response \in dealer_in
  /\ FindEntry(pending_responses_, response.command_id) = {}
  /\ FindEntry(DOMAIN async_responses_, response.command_id) # {}
  /\ async_responses_[response.command_id]
  /\ call = "SetVariable" => command_id_ < MaxRequests
  /\ dealer_in' = dealer_in \ {response}
  /\ async_log' = Append(async_log, [id |-> response.command_id, response |-> response])
  /\ IF NeededBy(call) \cap HeldAtAsyncCallback # {}
       THEN /\ io_pc' = outcome
            /\ ev' = [NoEvent("Relock") EXCEPT !.name = call, !.resp = response]
            /\ UNCHANGED <<command_id_, async_responses_, dealer_out, slots_,
                           slots_last_known_values_>>
       ELSE LET after == AfterCall(call, async_responses_)
            IN /\ command_id_' = after.command_id_
               /\ async_responses_' = Drop(after.async_responses_, response.command_id)
               /\ dealer_out' = after.dealer_out
               /\ slots_' = after.slots_
               /\ slots_last_known_values_' = after.slots_last_known_values_
               /\ io_pc' = LoopTop(need_reconnect)
               /\ ev' = [NoEvent("DealerReply") EXCEPT !.name = call, !.resp = response]
  /\ UNCHANGED <<srv_vars, codec_vars, caller, requests, since_last_reconnect_time, connected_,
                 client_running_, pending_responses_, returned, need_reconnect,
                 reconnect_attempts, sub_in, sub_log, nupdates>>

\* __WorkerLoop lines 1060-1084 for a frame whose subscription callback calls
\* the client
SubscriptionCallbackCalls(call, outcome) ==
  /\ io_pc = "poll"
  /\ sub_in # <<>>
  /\ LET varmsg == Head(sub_in)
         name == varmsg.name
         value == ExtractValue(varmsg)
         known == name \in DOMAIN slots_last_known_values_
                    /\ slots_last_known_values_[name] = value
     IN /\ name \in slots_ /\ ~known
        /\ sub_log' = Append(sub_log, [name |-> name, value |-> value])
        /\ ev' = [NoEvent(IF NeededBy(call) \cap HeldAtSubscriptionCallback # {}
                            THEN "Relock" ELSE "SubscriberMessage")
                    EXCEPT !.name = call, !.arg = value, !.cbs = 1]
  /\ call = "SetVariable" => command_id_ < MaxRequests
  /\ sub_in' = Tail(sub_in)
  /\ IF NeededBy(call) \cap HeldAtSubscriptionCallback # {}
       THEN /\ io_pc' = outcome
            /\ UNCHANGED <<command_id_, async_responses_, dealer_out, slots_,
                           slots_last_known_values_>>
       ELSE LET after == AfterCall(call, async_responses_)
            IN /\ command_id_' = after.command_id_
               /\ async_responses_' = after.async_responses_
               /\ dealer_out' = after.dealer_out
               /\ slots_' = after.slots_
               /\ slots_last_known_values_' = after.slots_last_known_values_
               /\ io_pc' = LoopTop(need_reconnect)
  /\ UNCHANGED <<srv_vars, codec_vars, caller, requests, since_last_reconnect_time, connected_,
                 client_running_, pending_responses_, returned, async_log, dealer_in,
                 need_reconnect, reconnect_attempts, nupdates>>

\* the two ends of relocking an owned std::mutex
RelockOutcomes == {"deadlocked", "terminated"}

\* ------------------------------------------- the client callbacks specification
\* SpecReentry: a connected client with a subscription on "a" sends async
\* writes; the replies and the server's updates arrive, and the callbacks the
\* I/O thread invokes for them call SetVariable (async) or RegisterCallback
NextReentry ==
  \/ Connect(TRUE)
  \/ RegisterCallback("a")
  \/ SendCommandAsync(TRUE, TRUE)
  \/ \E cmd \in dealer_out : PeerReply(cmd)
  \/ \E varmsg \in Updates : PeerPublish(varmsg)
  \/ \E response \in dealer_in, call \in {"SetVariable", "RegisterCallback"},
        outcome \in RelockOutcomes : AsyncCallbackCalls(response, call, outcome)
  \/ \E call \in {"SetVariable", "RegisterCallback"}, outcome \in RelockOutcomes :
        SubscriptionCallbackCalls(call, outcome)

SpecReentry == Init /\ [][NextReentry]_vars

\* ----------------------------------------------------- claims on SpecReentry
\* C29 (client callbacks run outside locks), as claimed: an async response
\* callback or a subscription callback that calls SetVariable (async) or
\* RegisterCallback never leaves the I/O thread stuck on a mutex
C29_ClientCallbacksOutsideLocks == io_pc # "deadlocked"

\* ------------------------------------------- Server: the reply, frame by frame
\* the router sockets of a server built with the four-endpoint constructor
Routers == {"internal_router_", "external_router_"}

\* delimiter frames a peer may put after its identity: the empty frame a DEALER
\* sends, or one byte
Delimiters == {<<>>, <<0>>}

\* a request reaches one of the router sockets
PeerSendOn(c, cmd, router, empty) ==
  /\ nops < MaxCommands
  /\ nops' = nops + 1
  /\ cmd.command_id = peer_id[c]
  /\ peer_id' = [peer_id EXCEPT ![c] = @ + 1]
  /\ router_in' = router_in \cup {EnvelopeOn(router, c, empty, cmd)}
  /\ ev' = [NoEvent("PeerSend") EXCEPT !.req = cmd]
  /\ UNCHANGED <<cl_vars, codec_vars, caller, requests, since_last_reconnect_time, router_frames, pool_vars, acked,
                 mutations, variables_, reg_kind, triggers_, running_, sockets, tasks_,
                 worker, router_out, internal_pub, cb_log, trig_log>>

\* (mutant of RouterGuard: the three sends are not guarded)
RouterGuard_None == {}

\* the closure of __HandleRouterMessage, line 259:
\* `std::lock_guard<std::mutex> lock(this->router_mutex_);`
RouterGuard == {"router_mutex_"}

\* the closure of __HandleRouterMessage, lines 250-259: the response is
\* serialized, identity_msg and empty_msg are filled from the copies taken
\* when the request was read, and router_mutex_ is taken
WorkerLockRouter(w) ==
  /\ worker[w].pc = "reply"
  /\ Free(worker, w, RouterGuard)
  /\ worker' = [worker EXCEPT ![w].pc = "send", ![w].held = @ \cup RouterGuard]
  /\ ev' = [NoEvent("LockRouter") EXCEPT !.w = w, !.req = worker[w].env.command]
  /\ UNCHANGED <<cl_vars, codec_vars, caller, requests, since_last_reconnect_time, router_frames, pool_vars, acked,
                 mutations, variables_, reg_kind, triggers_, running_, sockets, router_in,
                 tasks_, router_out, internal_pub, cb_log, trig_log, peer_id, nops>>

\* the frame the k-th send of lines 260-262 puts on the captured router_socket
ReplyFrame(env, response, k) ==
  [router |-> env.router,
   kind |-> <<"identity", "delimiter", "reply">>[k],
   data |-> CASE k = 1 -> env.identity
              [] k = 2 -> env.empty
              [] OTHER -> response,
   env |-> env]

\* the closure of __HandleRouterMessage, lines 260-263: one of the three sends;
\* a send on a closed socket throws out of the task; after the third the
\* guard's scope ends and the task is done
WorkerSendFrame(w) ==
  /\ worker[w].pc = "send"
  /\ LET env == worker[w].env
         response == worker[w].response
         k == worker[w].sent + 1
         command == env.command
     IN IF sockets # "open"
          THEN /\ worker' = [worker EXCEPT ![w] = IdleWorker]
               /\ ev' = [NoEvent("ReplyFailed") EXCEPT !.w = w, !.req = command]
               /\ UNCHANGED <<router_frames, router_out, acked>>
          ELSE /\ router_frames' = Append(router_frames, ReplyFrame(env, response, k))
               /\ IF k < 3
                    THEN /\ worker' = [worker EXCEPT ![w].sent = k]
                         /\ ev' = [NoEvent("SendFrame") EXCEPT !.w = w, !.req = command]
                         /\ UNCHANGED <<router_out, acked>>
                    ELSE /\ worker' = [worker EXCEPT ![w] = IdleWorker]
                         /\ router_out' = router_out \cup
                                            {[identity |-> env.identity, response |-> response]}
                         /\ acked' = IF /\ command.command_type = "SET_VARIABLE"
                                        /\ command.has_variable
                                        /\ response.success
                                        /\ ~worker[w].dirty
                                       THEN [acked EXCEPT ![command.variable.name] =
                                                            command.variable.value]
                                       ELSE acked
                         /\ ev' = [NoEvent("Reply") EXCEPT !.w = w, !.name = env.identity,
                                      !.req = command, !.resp = response,
                                      !.same = ~worker[w].changed,
                                      !.pubs = Len(internal_pub) - worker[w].pub0]
  /\ UNCHANGED <<cl_vars, codec_vars, caller, requests, since_last_reconnect_time, pool_vars, mutations,
                 variables_, reg_kind, triggers_, running_, sockets, router_in, tasks_,
                 internal_pub, cb_log, trig_log, peer_id, nops>>

\* ------------------------------------------------ the routing specification
\* a read and a write of "a"
RoutingCommands(id) ==
  {CommandMessage(id, "GET_VARIABLE", "a", FALSE, NoVariableMessage, FALSE, ""),
   CommandMessage(id, "SET_VARIABLE", "", TRUE,
                  VariableMessage("a", [kind |-> "int", v |-> 1], FALSE), FALSE, "")}

\* SpecRouting: two peers send requests to either router socket of a started
\* server, with either delimiter; the workers answer frame by frame
NextRouting ==
  \/ SetupVariable("a", [kind |-> "int", v |-> 0], FALSE, FALSE)
  \/ variables_["a"].present /\ Start(TRUE)
  \/ \E c \in Clients, router \in Routers, empty \in Delimiters :
        \E cmd \in RoutingCommands(peer_id[c]) :
           running_ /\ ~Outstanding(c) /\ PeerSendOn(c, cmd, router, empty)
  \/ \E env \in router_in : HandleRouterMessage(env)
  \/ \E w \in Workers : WorkerRun(w)
  \/ \E w \in Workers : WorkerLockRouter(w)
  \/ \E w \in Workers : WorkerSendFrame(w)

SpecRouting == Init /\ [][NextRouting]_vars

\* ----------------------------------------------------- claims on SpecRouting
\* the frames sent on router r, in order
FramesOn(r) == SelectSeq(router_frames, LAMBDA f : f.router = r)

\* C31 (reply routing): on each router socket the frames sent come in groups
\* of three, identity, delimiter, reply, all three of one request that was
\* read from that very socket; the identity and the delimiter are the ones
\* read with that request and the reply carries its command_id; and a worker
\* between its first and its last send holds router_mutex_.
C31_ReplyRouting ==
  /\ \A r \in Routers :
        LET s == FramesOn(r)
        IN \A i \in 1..Len(s) :
              LET j == (i - 1) % 3
                  f == s[i]
              IN /\ f.kind = <<"identity", "delimiter", "reply">>[j + 1]
                 /\ f.env = s[i - j].env
                 /\ f.env.router = r
                 /\ f.kind = "identity" => f.data = f.env.identity
                 /\ f.kind = "delimiter" => f.data = f.env.empty
                 /\ f.kind = "reply" => f.data.command_id = f.env.command.command_id
  /\ \A w \in Workers : worker[w].pc = "send" => "router_mutex_" \in worker[w].held

\* C31 witness: a worker has sent the identity of a request that came with a
\* one-byte delimiter, while the other worker waits with its reply for the
\* same router socket
C31_Witness ==
  \E w, o \in Workers :
     /\ w # o
     /\ worker[w].pc = "send" /\ worker[w].sent = 1
     /\ worker[w].env.empty = <<0>>
     /\ worker[o].pc = "reply"
     /\ worker[o].env.router = worker[w].env.router
     /\ worker[w].env.router = "external_router_"

\* ------------------------------------ Client: the dealer socket, step by step
\* the thread that holds dealer_mutex_ between two steps: a request thread
\* inside the guarded block of __SendCommandSync / __SendCommandAsync; the I/O
\* thread takes and releases the mutex within one step
DealerMutexHolder == IF caller.pc = "sending" THEN "request" ELSE "none"

\* __SendCommandSync lines 823-828 / __SendCommandAsync lines 893-896, after
\* __GetNextCommandId: dealer_mutex_ is taken, the entry is registered and the
\* delimiter frame is sent
RequestLock(sync, callback) ==
  /\ connected_
  /\ io_pc # "terminated"
  /\ caller.pc \notin {"waiting", "sending"}
  /\ command_id_ < MaxRequests
  /\ LET cmd_id == command_id_
     IN /\ command_id_' = command_id_ + 1
        /\ IF sync
             THEN /\ pending_responses_' = pending_responses_ \cup {cmd_id}
                  /\ UNCHANGED async_responses_
             ELSE /\ async_responses_' = Put(async_responses_, cmd_id, callback)
                  /\ UNCHANGED pending_responses_
        /\ caller' = Caller("sending", cmd_id, sync, callback, FALSE, FALSE)
  /\ ev' = NoEvent("RequestLock")
  /\ UNCHANGED <<srv_vars, codec_vars, requests, since_last_reconnect_time, connected_,
                 client_running_, returned, async_log, dealer_out, dealer_in, io_pc,
                 need_reconnect, reconnect_attempts, sub_vars>>

\* __SendCommandSync lines 829-856 / __SendCommandAsync lines 897-900: the
\* request frame is sent and the guard's scope ends; send_ok is whether the
\* send went through (on a dealer_ that the I/O thread closed or replaced
\* meanwhile either may happen)
RequestSend(send_ok) ==
  /\ caller.pc = "sending"
  /\ LET cmd_id == caller.id
         cmd == IF caller.sync THEN SyncCommand(cmd_id) ELSE AsyncCommand(cmd_id)
     IN /\ dealer_out' = IF send_ok THEN dealer_out \cup {cmd} ELSE dealer_out
        /\ IF caller.sync
             THEN /\ pending_responses_' =
                       IF send_ok THEN pending_responses_ ELSE pending_responses_ \ {cmd_id}
                  /\ returned' =
                       IF send_ok THEN returned
                       ELSE Put(returned, cmd_id, ErrorResponse(cmd_id, "ZeroMQ error"))
                  /\ caller' = IF send_ok
                                 THEN Caller("waiting", cmd_id, TRUE, caller.callback, TRUE, FALSE)
                                 ELSE SyncDone(cmd_id, caller.callback, FALSE)
             ELSE /\ caller' = IF send_ok
                                 THEN Caller("returned", cmd_id, FALSE, caller.callback, TRUE, TRUE)
                                 ELSE Caller("threw", cmd_id, FALSE, caller.callback, FALSE, FALSE)
                  /\ UNCHANGED <<pending_responses_, returned>>
  /\ ev' = NoEvent("RequestSend")
  /\ UNCHANGED <<srv_vars, codec_vars, requests, since_last_reconnect_time, connected_,
                 client_running_, command_id_, async_responses_, async_log, dealer_in,
                 io_pc, need_reconnect, reconnect_attempts, sub_vars>>

\* the mutexes __WorkerLoop holds at `dealer_->close()` (line 938): none, the
\* only lock of the reconnect block is taken on line 961
HeldAtDealerClose == {}

\* __WorkerLoop lines 924-939: an attempt is due; dealer_->close() and
\* subscriber_->close()
LoopReconnectClose ==
  /\ io_pc = "reconnect"
  /\ need_reconnect
  /\ reconnect_attempts < max_reconnect_attempts
  /\ ("dealer_mutex_" \in HeldAtDealerClose) => DealerMutexHolder = "none"
  /\ io_pc' = "replace"
  /\ dealer_in' = {}
  /\ sub_in' = <<>>
  /\ ev' = [NoEvent("DealerClose") EXCEPT !.name = DealerMutexHolder]
  /\ UNCHANGED <<srv_vars, codec_vars, caller, requests, since_last_reconnect_time, connected_,
                 client_running_, command_id_, pending_responses_, async_responses_,
                 returned, async_log, dealer_out, need_reconnect, reconnect_attempts,
                 slots_, slots_last_known_values_, sub_log, nupdates>>

\* __WorkerLoop lines 941-958 and 983-987: the sockets are created anew and
\* connected; on success the controller is reset and the loop goes to the
\* cancellations; a zmq error counts the attempt
LoopReconnectReplace(ok, poll_ok) ==
  /\ io_pc = "replace"
  /\ dealer_out' = {}
  /\ IF ok
       THEN /\ reconnect_attempts' = 0
            /\ need_reconnect' = FALSE
            /\ connected_' = TRUE
            /\ io_pc' = "cancel"
            /\ ev' = NoEvent("DealerReplace")
            /\ UNCHANGED since_last_reconnect_time
       ELSE /\ reconnect_attempts' = reconnect_attempts + 1
            /\ since_last_reconnect_time' = 0
            /\ io_pc' = IF poll_ok THEN "poll" ELSE "terminated"
            /\ ev' = NoEvent("ReconnectFailed")
            /\ UNCHANGED <<connected_, need_reconnect>>
  /\ UNCHANGED <<srv_vars, codec_vars, caller, requests, client_running_, command_id_,
                 pending_responses_, async_responses_, returned, async_log, dealer_in,
                 sub_vars>>

\* __WorkerLoop lines 960-981: under dealer_mutex_, every outstanding request
\* is cancelled
LoopReconnectCancel ==
  /\ io_pc = "cancel"
  /\ DealerMutexHolder = "none"
  /\ LET called == InOrder({k \in DOMAIN async_responses_ : async_responses_[k]})
     IN /\ returned' = [k \in DOMAIN returned \cup pending_responses_ |->
                          IF k \in pending_responses_ THEN ResetResponse(k)
                                                      ELSE returned[k]]
        /\ pending_responses_' = {}
        /\ async_log' = async_log \o
                          [i \in 1..Len(called) |->
                             [id |-> called[i], response |-> ResetResponse(called[i])]]
        /\ async_responses_' = EmptyMap
  /\ io_pc' = "poll"
  /\ ev' = NoEvent("ReconnectOk")
  /\ UNCHANGED <<srv_vars, codec_vars, caller, requests, since_last_reconnect_time, connected_,
                 client_running_, command_id_, dealer_out, dealer_in, need_reconnect,
                 reconnect_attempts, sub_vars>>

\* ------------------------------------------------- the dealer specification
\* SpecDealer: a request thread sends sync and async requests frame by frame
\* while the I/O thread receives replies, meets receive errors and reconnects
NextDealer ==
  \/ ~connected_ /\ Connect(TRUE)
  \/ \E sync, callback \in BOOLEAN : RequestLock(sync, callback)
  \/ \E send_ok \in BOOLEAN : RequestSend(send_ok)
  \/ PublicCallReturn
  \/ \E cmd \in dealer_out : PeerReply(cmd)
  \/ \E response \in dealer_in : DealerMutexHolder = "none" /\ LoopDealerReply(response)
  \/ DealerMutexHolder = "none" /\ LoopDealerError
  \/ LoopReconnectClose
  \/ \E ok, poll_ok \in BOOLEAN : LoopReconnectReplace(ok, poll_ok)
  \/ LoopReconnectCancel
  \/ DealerMutexHolder = "none" /\ LoopGiveUp

SpecDealer == Init /\ [][NextDealer]_vars

\* ------------------------------------------------------ claims on SpecDealer
\* C32 (exclusive use of the dealer socket), as claimed: while the I/O thread
\* has closed dealer_ and not yet re-created it, no request thread is inside
\* its guarded send (between the delimiter frame and the request frame).
C32_ExclusiveDealer == io_pc = "replace" => DealerMutexHolder = "none"

\* --------------------------------------------------- claims on SpecLifecycle
\* C33 (Stop drains before closing), as claimed: no worker-pool task comes to
\* its reply sends after Server::Stop has closed the router sockets.
C33_StopDrains == ~(ev.op = "ReplyFailed" /\ sockets = "closed")

\* ------------------------------------------------ the progress specification
\* the steps the I/O thread takes by itself: the reconnect block, reached
\* at the top of an iteration
LoopOwnStep ==
  \/ \E ok, poll_ok \in BOOLEAN : LoopReconnectTimed(ok, poll_ok)
  \/ LoopGiveUp

\* SpecProgress: the loop of a connected client meets errors on its sockets
\* while time passes. The I/O thread is scheduled and the clock advances
\* (weak fairness of both); an event on a socket, which is what ends
\* `zmq::poll(items, 3, -1)` (line 1011), may or may not come.
NextProgress ==
  \/ ~connected_ /\ io_pc = "off" /\ Connect(TRUE)
  \/ Tick
  \/ LoopDealerError
  \/ \E eagain \in BOOLEAN : LoopSubscriberError(eagain)
  \/ \E ok, poll_ok \in BOOLEAN : LoopReconnectTimed(ok, poll_ok)
  \/ LoopGiveUp

SpecProgress ==
  /\ Init
  /\ [][NextProgress]_vars
  /\ WF_vars(Tick)
  /\ WF_vars(LoopOwnStep)

\* ---------------------------------------------------- claims on SpecProgress
\* the last step was an event on the dealer or the subscriber socket
SocketEvent == ev.op \in {"DealerError", "SubscriberError", "SubscriberTimeout"}

\* C34 (reconnect progress), as claimed: whenever need_reconnect is set in a
\* running loop, the loop later makes a reconnect attempt (successful or
\* failed) or gives up, also in the runs in which from some point on no
\* event arrives on the sockets any more.
C34_ReconnectProgress ==
  (<>[](~SocketEvent)) =>
     ((need_reconnect /\ io_pc \in {"poll", "reconnect"})
        ~> (ev.op \in {"ReconnectOk", "ReconnectFailed", "GiveUp"}))

\* --------------------------------------------- the termination specification
\* SpecTermination: an application thread issues SetVariable and
\* ExecuteTrigger calls while another connects and disconnects the client;
\* sends go through, the server answers every request it received, the I/O
\* thread handles every reply that reached dealer_ and a caller whose promise
\* was set returns (weak fairness of the three)
NextTermination ==
  \/ \E ok \in BOOLEAN : Connect(ok)
  \/ Disconnect
  \/ \E sync, callback \in BOOLEAN : ClientSetVariable(sync, callback, TRUE)
  \/ \E sync, callback \in BOOLEAN : ClientExecuteTrigger(sync, callback, TRUE)
  \/ PublicCallReturn
  \/ \E cmd \in dealer_out : PeerReply(cmd)
  \/ \E response \in dealer_in : LoopDealerReply(response)

SpecTermination ==
  /\ Init
  /\ [][NextTermination]_vars
  /\ WF_vars(PublicCallReturn)
  /\ WF_vars(\E cmd \in dealer_out : PeerReply(cmd))
  /\ WF_vars(\E response \in dealer_in : LoopDealerReply(response))

\* ------------------------------------------------- claims on SpecTermination
\* C35 (correlation entries always terminate), as claimed: every entry of
\* pending_responses_ and of async_responses_ is removed later on, and a
\* caller blocked in response_future.get() returns later on.
C35_EntriesTerminate ==
  /\ \A id \in 0..(MaxRequests - 1) :
        /\ (id \in pending_responses_) ~> (id \notin pending_responses_)
        /\ (id \in DOMAIN async_responses_) ~> (id \notin DOMAIN async_responses_)
  /\ (caller.pc = "waiting") ~> (caller.pc # "waiting")

\* ---------------------------------------------- the completion specification
\* SpecCompletion: a connected client issues sync and async requests whose
\* sends may fail; replies (also a stray one under the id of the next request)
\* arrive in any order, the dealer raises errors, the loop reconnects with or
\* without success and gives up
NextCompletion ==
  \/ ~connected_ /\ io_pc = "off" /\ Connect(TRUE)
  \/ \E send_ok \in BOOLEAN : SendCommandSync(send_ok)
  \/ \E callback \in BOOLEAN, send_ok \in BOOLEAN : SendCommandAsync(callback, send_ok)
  \/ \E cmd \in dealer_out : PeerReply(cmd)
  \/ PeerStray(command_id_)
  \/ \E response \in dealer_in : LoopDealerReply(response)
  \/ LoopDealerError
  \/ \E elapsed \in BOOLEAN, ok \in BOOLEAN, poll_ok \in BOOLEAN :
        LoopReconnect(elapsed, ok, poll_ok)
  \/ LoopGiveUp

SpecCompletion == Init /\ [][NextCompletion]_vars

\* -------------------------------------------------- claims on SpecCompletion
\* C36 (single completion): no command_id is a key of both pending_responses_
\* and async_responses_; an entry that was completed is no longer in its map;
\* no async callback is invoked twice for one command_id, and a response
\* handed to a sync caller is never replaced by another one, whatever the
\* sequence of replies, successful reconnects and give-ups.
C36_SingleCompletion ==
  /\ [](pending_responses_ \cap DOMAIN async_responses_ = {})
  /\ [](pending_responses_ \cap DOMAIN returned = {})
  /\ [](\A i, j \in 1..Len(async_log) :
           async_log[i].id = async_log[j].id => i = j)
  /\ [](\A i \in 1..Len(async_log) : async_log[i].id \notin DOMAIN async_responses_)
  /\ [][\A k \in DOMAIN returned :
           k \in DOMAIN returned' /\ returned'[k] = returned[k]]_vars

\* C36 witness: the loop gave up after one request had been completed by its
\* reply and another one by the cancellation of a successful reconnect
C36_Witness ==
  /\ ev.op = "GiveUp"
  /\ \E k \in DOMAIN returned : returned[k] = ResetResponse(k)
  /\ \/ \E k \in DOMAIN returned : returned[k].success
     \/ \E i \in 1..Len(async_log) : async_log[i].response.success

\* --------------------------------------------------- claims on SpecReadWrite
\* C37 (on-change callback order), as claimed: once every on-change callback
\* of the writes applied so far has been invoked, the value passed to the
\* last invoked callback is the value stored in the variable.
C37_CallbackOrder ==
  (/\ cb_log # <<>>
   /\ \A w \in Workers : worker[w].pc # "callback")
     => cb_log[Len(cb_log)].value = variables_["a"].value

MaxTasks == 3

\* the k-th closure handed to Enqueue
PoolTask(k) == Envelope("c1", SyncCommand(k))

\* an entry of pool_log
PoolEvent(op, k, w) == [op |-> op, task |-> k, w |-> w]

\* ThreadPool::Enqueue: under queue_mutex_, a stopped pool throws
\* std::runtime_error, else the packaged task is put at the back of tasks_;
\* notify_one
PoolEnqueue ==
  /\ nops < MaxTasks
  /\ IF stop_
       THEN /\ ev' = [NoEvent("EnqueueRefused") EXCEPT !.same = TRUE]
            /\ UNCHANGED <<tasks_, nops, pool_log>>
       ELSE /\ tasks_' = Append(tasks_, PoolTask(nops))
            /\ nops' = nops + 1
            /\ pool_log' = Append(pool_log, PoolEvent("enqueue", nops, ""))
            /\ ev' = NoEvent("Enqueue")
  /\ UNCHANGED <<cl_vars, codec_vars, caller, requests, since_last_reconnect_time, router_frames,
                 stop_, acked, mutations, variables_, reg_kind, triggers_, running_,
                 sockets, router_in, worker, router_out, internal_pub, cb_log, trig_log,
                 peer_id>>

\* the worker's loop, lines 14-21: woken with a task in the queue, it moves
\* the front task out of tasks_
PoolTake(w) ==
  /\ worker[w].pc = "idle"
  /\ tasks_ # <<>>
  /\ worker' = [worker EXCEPT ![w].pc = "task", ![w].env = Head(tasks_)]
  /\ tasks_' = Tail(tasks_)
  /\ pool_log' = Append(pool_log, PoolEvent("take", Head(tasks_).command.command_id, w))
  /\ ev' = [NoEvent("Take") EXCEPT !.w = w]
  /\ UNCHANGED <<cl_vars, codec_vars, caller, requests, since_last_reconnect_time, router_frames,
                 stop_, acked, mutations, variables_, reg_kind, triggers_, running_,
                 sockets, router_in, router_out, internal_pub, cb_log, trig_log, peer_id,
                 nops>>

\* the worker's loop, lines 23-24: `task();`
PoolRun(w) ==
  /\ worker[w].pc = "task"
  /\ worker' = [worker EXCEPT ![w] = IdleWorker]
  /\ pool_log' = Append(pool_log, PoolEvent("run", worker[w].env.command.command_id, w))
  /\ ev' = [NoEvent("Run") EXCEPT !.w = w]
  /\ UNCHANGED <<cl_vars, codec_vars, caller, requests, since_last_reconnect_time, router_frames,
                 stop_, acked, mutations, variables_, reg_kind, triggers_, running_,
                 sockets, router_in, tasks_, router_out, internal_pub, cb_log, trig_log,
                 peer_id, nops>>

\* (mutant of ExitCondition: a stopped pool's worker leaves at once)
ExitCondition_StopOnly(stop, queue) == stop

\* the worker's loop, line 17: `if (this->stop_ && this->tasks_.empty()) return;`
ExitCondition(stop, queue) == stop /\ queue = <<>>

\* the worker's loop, lines 14-17: woken, it finds the exit condition and returns
PoolExit(w) ==
  /\ worker[w].pc = "idle"
  /\ ExitCondition(stop_, tasks_)
  /\ worker' = [worker EXCEPT ![w].pc = "exited"]
  /\ pool_log' = Append(pool_log, PoolEvent("exit", -1, w))
  /\ ev' = [NoEvent("Exit") EXCEPT !.w = w]
  /\ UNCHANGED <<cl_vars, codec_vars, caller, requests, since_last_reconnect_time, router_frames,
                 stop_, acked, mutations, variables_, reg_kind, triggers_, running_,
                 sockets, router_in, tasks_, router_out, internal_pub, cb_log, trig_log,
                 peer_id, nops>>

\* ThreadPool::~ThreadPool, lines 32-36: stop_ is set under queue_mutex_ and
\* all workers are notified; the joins that follow wait for PoolExit
PoolDestroy ==
  /\ ~stop_
  /\ stop_' = TRUE
  /\ pool_log' = Append(pool_log, PoolEvent("destroy", -1, ""))
  /\ ev' = NoEvent("PoolDestroy")
  /\ UNCHANGED <<cl_vars, codec_vars, caller, requests, since_last_reconnect_time, router_frames,
                 acked, mutations, variables_, reg_kind, triggers_, running_, sockets,
                 router_in, tasks_, worker, router_out, internal_pub, cb_log, trig_log,
                 peer_id, nops>>

\* ---------------------------------------------------- the pool specification
\* SpecPool: tasks are enqueued while two workers take and run them; at any
\* moment the pool is destroyed
NextPool ==
  \/ PoolEnqueue
  \/ \E w \in Workers : PoolTake(w)
  \/ \E w \in Workers : PoolRun(w)
  \/ \E w \in Workers : PoolExit(w)
  \/ PoolDestroy

SpecPool == Init /\ [][NextPool]_vars

\* -------------------------------------------------------- claims on SpecPool
\* the entries of pool_log of one kind, in order
PoolEvents(op) == SelectSeq(pool_log, LAMBDA e : e.op = op)

\* C39 (each task runs exactly once): the tasks are taken from the queue in
\* the order in which Enqueue accepted them, each by one worker; a task is run
\* at most once, by the worker that took it; a task that was accepted is in
\* the queue, or held by the worker that took it, or has been run; a worker
\* exits only after the pool's destruction began and with the queue empty;
\* and when all workers have exited every accepted task has been run.
C39_ExactlyOnce ==
  LET takes == PoolEvents("take")
      runs == PoolEvents("run")
  IN /\ \A i \in 1..Len(takes) : takes[i].task = i - 1
     /\ \A i, j \in 1..Len(runs) : runs[i].task = runs[j].task => i = j
     /\ \A i \in 1..Len(runs) : takes[runs[i].task + 1].w = runs[i].w
     /\ \A k \in 0..(nops - 1) :
           \/ \E i \in 1..Len(tasks_) : tasks_[i] = PoolTask(k)
           \/ /\ k < Len(takes)
              /\ \/ \E i \in 1..Len(runs) : runs[i].task = k
                 \/ /\ worker[takes[k + 1].w].pc = "task"
                    /\ worker[takes[k + 1].w].env = PoolTask(k)
     /\ \A w \in Workers : worker[w].pc = "exited" => stop_
     /\ (\A w \in Workers : worker[w].pc = "exited") =>
           /\ tasks_ = <<>>
           /\ Len(runs) = nops

\* C39 witness: all workers have exited after three tasks were accepted, two
\* of which were still in the queue when the pool's destruction began and
\* were then taken by different workers
C39_Witness ==
  /\ \A w \in Workers : worker[w].pc = "exited"
  /\ nops = 3
  /\ \E d \in 1..Len(pool_log) :
        /\ pool_log[d].op = "destroy"
        /\ \E i, j \in (d + 1)..Len(pool_log) :
              /\ pool_log[i].op = "take" /\ pool_log[j].op = "take"
              /\ pool_log[i].w # pool_log[j].w
        /\ \A i \in 1..3 : pool_log[i].op = "enqueue"

\* ------------------------------------------- Client: concurrent request calls
\* (mutant of NextCommandId: the counter is written back unchanged)
NextCommandId_Same(id) == id

\* __GetNextCommandId, line 804: `return command_id_++;` on the
\* std::atomic<uint64_t> command_id_ (client.h): one atomic read-modify-write
\* that returns the value read and stores its successor (the wrap at 2^64
\* is out of reach of the runs explored)
NextCommandId(id) == id + 1

\* the head of a public request on a connected client (lines 753-754,
\* 780-781): `cmd.set_command_id(__GetNextCommandId())`
GetNextCommandId(t, sync) ==
  /\ connected_
  /\ io_pc # "terminated"
  /\ requests[t].pc = "idle"
  /\ requests' = [requests EXCEPT ![t] = Request("built", command_id_, sync)]
  /\ command_id_' = NextCommandId(command_id_)
  /\ ev' = [NoEvent("GetNextCommandId") EXCEPT !.w = t]
  /\ UNCHANGED <<srv_vars, codec_vars, caller, since_last_reconnect_time, connected_,
                 client_running_, pending_responses_, async_responses_, returned,
                 async_log, dealer_out, dealer_in, io_pc, need_reconnect,
                 reconnect_attempts, sub_vars>>

\* __SendCommandSync lines 825-833 / __SendCommandAsync lines 893-900: under
\* dealer_mutex_ the entry is registered under the command's id and the
\* command is sent
RequestRegister(t) ==
  /\ requests[t].pc = "built"
  /\ LET cmd_id == requests[t].cmd_id
     IN IF requests[t].sync
          THEN /\ pending_responses_' = pending_responses_ \cup {cmd_id}
               /\ dealer_out' = dealer_out \cup {SyncCommand(cmd_id)}
               /\ UNCHANGED async_responses_
          ELSE /\ async_responses_' = Put(async_responses_, cmd_id, TRUE)
               /\ dealer_out' = dealer_out \cup {AsyncCommand(cmd_id)}
               /\ UNCHANGED pending_responses_
  /\ requests' = [requests EXCEPT ![t].pc = "outstanding"]
  /\ ev' = [NoEvent("RequestRegister") EXCEPT !.w = t]
  /\ UNCHANGED <<srv_vars, codec_vars, caller, since_last_reconnect_time, connected_,
                 client_running_, command_id_, returned, async_log, dealer_in, io_pc,
                 need_reconnect, reconnect_attempts, sub_vars>>

\* the call returns: an async call at once (lines 759-760), a sync call when
\* its promise was set (line 861)
RequestReturn(t) ==
  /\ requests[t].pc = "outstanding"
  /\ requests[t].sync => requests[t].cmd_id \in DOMAIN returned
  /\ requests' = [requests EXCEPT ![t] = NoRequest]
  /\ ev' = [NoEvent("RequestReturn") EXCEPT !.w = t]
  /\ UNCHANGED <<srv_vars, codec_vars, caller, since_last_reconnect_time, cl_vars>>

\* ---------------------------------------------------- the ids specification
\* requests made in the runs of SpecIds
MaxIds == 3

\* SpecIds: two application threads issue sync and async requests on one
\* connected client, interleaved in any way, while the server answers and the
\* I/O thread completes the entries
NextIds ==
  \/ ~connected_ /\ io_pc = "off" /\ Connect(TRUE)
  \/ \E t \in RequestThreads, sync \in BOOLEAN :
        command_id_ < MaxIds /\ GetNextCommandId(t, sync)
  \/ \E t \in RequestThreads : RequestRegister(t)
  \/ \E t \in RequestThreads : RequestReturn(t)
  \/ \E cmd \in dealer_out : PeerReply(cmd)
  \/ \E response \in dealer_in : LoopDealerReply(response)

SpecIds == Init /\ [][NextIds]_vars

\* --------------------------------------------------------- claims on SpecIds
\* C40 (fresh command ids): two request threads inside a request call never
\* carry the same command_id; and a command is registered under an id that is
\* a key of neither map and under which no request was completed before.
C40_FreshIds ==
  /\ [](\A t, u \in RequestThreads :
           (t # u /\ requests[t].pc # "idle" /\ requests[u].pc # "idle")
              => requests[t].cmd_id # requests[u].cmd_id)
  /\ [][\A t \in RequestThreads :
           (requests[t].pc = "built" /\ requests'[t].pc = "outstanding") =>
              LET k == requests[t].cmd_id
              IN /\ k \notin pending_responses_
                 /\ k \notin DOMAIN async_responses_
                 /\ k \notin DOMAIN returned
                 /\ \A i \in 1..Len(async_log) : async_log[i].id # k
       ]_vars

\* C40 witness: both threads are inside a request call, each having taken
\* its id before the other one registered its command, while an earlier
\* request has already been completed
C40_Witness ==
  /\ requests["t1"].pc = "built"
  /\ requests["t2"].pc = "built"
  /\ requests["t1"].cmd_id > requests["t2"].cmd_id
  /\ DOMAIN returned # {}

====
